---- MODULE Spec2Model ----
(***************************************************************************)
(* Model of MetricsCollector (src/src/metrics_collector.py): the metric    *)
(* buffer, the rolling series used for drift detection, the recording      *)
(* handlers and flush_metrics with its CloudWatch sink.                    *)
(*                                                                         *)
(* Conventions                                                             *)
(*  - A Python dict is an association list: a sequence of [key, list]      *)
(*    entries in insertion order of the keys (dicts iterate in that order).*)
(*  - A MetricData object carries, besides its five fields, the ordinal    *)
(*    `id` of the _record_metric call that created it (object identity).   *)
(*  - Probabilities and confidences are integers in tenths.                *)
(*  - datetime.now() is the ordinal `now` of the handler call.             *)
(*  - CHOOSE r \in {F(y) : y \in {e}} : TRUE is F(e) with e evaluated once. *)
(***************************************************************************)
EXTENDS Integers, Sequences, FiniteSets, TLC

VARIABLES
    metric_buffer,        \* self.metric_buffer: name -> list of MetricData
    fraud_probabilities,  \* self.business_metrics['fraud_probabilities']
    confidences,          \* self.business_metrics['confidences']
    baseline_metrics,     \* self.baseline_metrics
    sink_log,             \* put_metric_data calls of the latest flush
    delivered,            \* ids of the observations CloudWatch has accepted
    published,            \* the sns.publish calls made so far
    flush_thread,         \* position of a flush_metrics call of another thread
    outcome,              \* the latest handler call and how it ended
    now,                  \* number of recording handler calls so far
    next_id               \* ordinal of the next _record_metric call

vars == <<metric_buffer, fraud_probabilities, confidences, baseline_metrics,
          sink_log, delivered, published, flush_thread, outcome, now, next_id>>

----------------------------------------------------------------------------
\* Program constants

\* range(0, len(metrics), 20) / metrics[i:i+20]
BatchSize == 20

\* deque(maxlen=1000)
DequeMaxLen == 1000

\* self.drift_window_size = 100
drift_window_size == 100

\* current_probs[:50]
BootstrapLen == 50

----------------------------------------------------------------------------
\* Bounds of the model

\* recording handler calls explored by Spec
MaxCalls == 2

\* collect_api_metrics calls explored by SpecBatch
MaxBatchCalls == 11

\* collect_prediction_metrics calls explored by SpecPred
MaxPredCalls == 9

\* collect_prediction_metrics calls explored by SpecDeque
MaxDequeCalls == 1050

\* buffered observations at which SpecDeque flushes
MaxDequeBuffer == 30

\* collect_prediction_metrics calls explored by SpecDrift
MaxDriftPreds == 101

\* collect_model_drift_metrics calls explored by SpecDrift
MaxDriftChecks == 2

\* buffered observations at which SpecDrift flushes
MaxDriftBuffer == 30

\* _record_metric calls explored by SpecClassify
MaxProbeCalls == 2

\* _check_business_anomalies calls explored by SpecAnomaly
MaxAnomalyCalls == 2

\* collect_api_metrics calls explored by SpecApi
MaxApiCalls == 3
MaxSecurityCalls == 2
MaxFeatureCalls == 2
MaxRaceCalls == 3
MaxAlternatingExtra == 1
MaxAlternatingChecks == 2
MaxSampleLen == 2

----------------------------------------------------------------------------
\* Sequence helpers

Min(a, b) == IF a < b THEN a ELSE b

\* Python slice s[i:j] with 0 <= i, 0-based, end exclusive, clipped to len(s)
Slice(s, i, j) == SubSeq(s, i + 1, Min(j, Len(s)))

\* the n oldest values instead of the n latest
LastN_oldest(s, n) == IF Len(s) <= n THEN s ELSE SubSeq(s, 1, n)

\* Python slice s[-n:] for n > 0
LastN(s, n) == IF Len(s) <= n THEN s ELSE SubSeq(s, Len(s) - n + 1, Len(s))

RECURSIVE Flatten(_)
Flatten(ss) == IF ss = <<>> THEN <<>> ELSE Head(ss) \o Flatten(Tail(ss))

----------------------------------------------------------------------------
\* Python dict (insertion ordered) of lists, as an association list

DictHas(d, k) == \E i \in 1..Len(d) : d[i].key = k

\* d[k].append(v) on a defaultdict(list)
DictAppend(d, k, v) ==
    LET append_to(dict) ==
            IF DictHas(dict, k)
            THEN LET i == CHOOSE j \in 1..Len(dict) : dict[j].key = k
                 IN  [dict EXCEPT ![i].list = Append(@, v)]
            ELSE Append(dict, [key |-> k, list |-> <<v>>])
    IN  CHOOSE r \in {append_to(y) : y \in {d}} : TRUE

\* for l in d.values(): for x in l: ...   (the items in iteration order)
DictItems(d) == Flatten([i \in 1..Len(d) |-> d[i].list])

----------------------------------------------------------------------------
\* Metric names.  A Python str is its sequence of characters; NameChars spells
\* every metric name the collector records and every name of ProbeNames, so
\* that startswith() and `in` are computed on the characters.

NameChars == [
    prediction_processing_time |->
        <<"p","r","e","d","i","c","t","i","o","n","_","p","r","o","c","e","s","s","i","n","g","_","t","i","m","e">>,
    fraud_probability |->
        <<"f","r","a","u","d","_","p","r","o","b","a","b","i","l","i","t","y">>,
    model_confidence |->
        <<"m","o","d","e","l","_","c","o","n","f","i","d","e","n","c","e">>,
    api_request_duration |->
        <<"a","p","i","_","r","e","q","u","e","s","t","_","d","u","r","a","t","i","o","n">>,
    api_request_size |->
        <<"a","p","i","_","r","e","q","u","e","s","t","_","s","i","z","e">>,
    api_response_size |->
        <<"a","p","i","_","r","e","s","p","o","n","s","e","_","s","i","z","e">>,
    api_errors_total |->
        <<"a","p","i","_","e","r","r","o","r","s","_","t","o","t","a","l">>,
    claims_processed_total |->
        <<"c","l","a","i","m","s","_","p","r","o","c","e","s","s","e","d","_","t","o","t","a","l">>,
    fraud_detection_rate |->
        <<"f","r","a","u","d","_","d","e","t","e","c","t","i","o","n","_","r","a","t","e">>,
    high_risk_claims_rate |->
        <<"h","i","g","h","_","r","i","s","k","_","c","l","a","i","m","s","_","r","a","t","e">>,
    average_fraud_probability |->
        <<"a","v","e","r","a","g","e","_","f","r","a","u","d","_","p","r","o","b","a","b","i","l","i","t","y">>,
    average_model_confidence |->
        <<"a","v","e","r","a","g","e","_","m","o","d","e","l","_","c","o","n","f","i","d","e","n","c","e">>,
    prediction_drift_score |->
        <<"p","r","e","d","i","c","t","i","o","n","_","d","r","i","f","t","_","s","c","o","r","e">>,
    confidence_drift_score |->
        <<"c","o","n","f","i","d","e","n","c","e","_","d","r","i","f","t","_","s","c","o","r","e">>,
    sagemaker_hourly_cost |->
        <<"s","a","g","e","m","a","k","e","r","_","h","o","u","r","l","y","_","c","o","s","t">>,
    cost_per_prediction |->
        <<"c","o","s","t","_","p","e","r","_","p","r","e","d","i","c","t","i","o","n">>,
    predictions_per_dollar |->
        <<"p","r","e","d","i","c","t","i","o","n","s","_","p","e","r","_","d","o","l","l","a","r">>,
    active_instances |->
        <<"a","c","t","i","v","e","_","i","n","s","t","a","n","c","e","s">>,
    security_events_total |->
        <<"s","e","c","u","r","i","t","y","_","e","v","e","n","t","s","_","t","o","t","a","l">>,
    failed_authentication_attempts |->
        <<"f","a","i","l","e","d","_","a","u","t","h","e","n","t","i","c","a","t","i","o","n","_","a","t","t","e","m","p","t","s">>,
    feature_months_as_customer |->
        <<"f","e","a","t","u","r","e","_","m","o","n","t","h","s","_","a","s","_","c","u","s","t","o","m","e","r">>,
    feature_age |->
        <<"f","e","a","t","u","r","e","_","a","g","e">>,
    feature_total_claim_amount |->
        <<"f","e","a","t","u","r","e","_","t","o","t","a","l","_","c","l","a","i","m","_","a","m","o","u","n","t">>,
    feature_claim_ratio |->
        <<"f","e","a","t","u","r","e","_","c","l","a","i","m","_","r","a","t","i","o">>,
    feature_incident_severity |->
        <<"f","e","a","t","u","r","e","_","i","n","c","i","d","e","n","t","_","s","e","v","e","r","i","t","y">>,
    business_anomaly_detected |->
        <<"b","u","s","i","n","e","s","s","_","a","n","o","m","a","l","y","_","d","e","t","e","c","t","e","d">>,
    api_cost_tracker |->
        <<"a","p","i","_","c","o","s","t","_","t","r","a","c","k","e","r">>,
    prediction_cost |->
        <<"p","r","e","d","i","c","t","i","o","n","_","c","o","s","t">>,
    fraud_cost |->
        <<"f","r","a","u","d","_","c","o","s","t">>,
    business_cost |->
        <<"b","u","s","i","n","e","s","s","_","c","o","s","t">>,
    claims_cost |->
        <<"c","l","a","i","m","s","_","c","o","s","t">>,
    security_cost |->
        <<"s","e","c","u","r","i","t","y","_","c","o","s","t">>,
    cost_ |->
        <<"c","o","s","t","_">>,
    cost |->
        <<"c","o","s","t">>,
    xcostx |->
        <<"x","c","o","s","t","x">>,
    COST_total |->
        <<"C","O","S","T","_","t","o","t","a","l">>,
    api |->
        <<"a","p","i">>,
    apix_latency |->
        <<"a","p","i","x","_","l","a","t","e","n","c","y">>,
    my_api_calls |->
        <<"m","y","_","a","p","i","_","c","a","l","l","s">>,
    my_security_events |->
        <<"m","y","_","s","e","c","u","r","i","t","y","_","e","v","e","n","t","s">>,
    fraudulent |->
        <<"f","r","a","u","d","u","l","e","n","t">>,
    predictions_total |->
        <<"p","r","e","d","i","c","t","i","o","n","s","_","t","o","t","a","l">>,
    claim_count |->
        <<"c","l","a","i","m","_","c","o","u","n","t">>,
    security |->
        <<"s","e","c","u","r","i","t","y">>,
    custom_metric |->
        <<"c","u","s","t","o","m","_","m","e","t","r","i","c">>
]

MetricNames == DOMAIN NameChars

\* names no handler records, passed to _record_metric directly: one or several
\* of the namespace rules match them, or nearly match
ProbeNames ==
    {"api_cost_tracker", "prediction_cost", "fraud_cost", "business_cost",
     "claims_cost", "security_cost", "cost_", "cost",
     "xcostx", "COST_total", "api", "apix_latency",
     "my_api_calls", "my_security_events", "fraudulent", "predictions_total",
     "claim_count", "security", "custom_metric"}

\* s.startswith(p)
StartsWith(s, p) == Len(p) <= Len(s) /\ SubSeq(s, 1, Len(p)) = p

\* p in s
Contains(s, p) == \E i \in 0..(Len(s) - Len(p)) : SubSeq(s, i + 1, i + Len(p)) = p

\* get_metric_namespace testing the 'cost' rule before every other rule
get_metric_namespace_cost_first(metric_name) ==
    LET n == NameChars[metric_name] IN
    IF StartsWith(n, <<"c","o","s","t","_">>) \/ Contains(n, <<"c","o","s","t">>)
    THEN "FraudDetection/Cost"
    ELSE IF StartsWith(n, <<"a","p","i","_">>) THEN "FraudDetection/API"
    ELSE IF StartsWith(n, <<"p","r","e","d","i","c","t","i","o","n","_">>) \/ StartsWith(n, <<"f","r","a","u","d","_">>)
         THEN "FraudDetection/ML"
    ELSE IF StartsWith(n, <<"b","u","s","i","n","e","s","s","_">>) \/ StartsWith(n, <<"c","l","a","i","m","s","_">>)
         THEN "FraudDetection/Business"
    ELSE IF StartsWith(n, <<"s","e","c","u","r","i","t","y","_">>) THEN "FraudDetection/Security"
    ELSE "FraudDetection/Custom"

\* _get_metric_namespace
get_metric_namespace(metric_name) ==
    LET n == NameChars[metric_name] IN
    IF StartsWith(n, <<"a","p","i","_">>) THEN "FraudDetection/API"
    ELSE IF StartsWith(n, <<"p","r","e","d","i","c","t","i","o","n","_">>) \/ StartsWith(n, <<"f","r","a","u","d","_">>)
         THEN "FraudDetection/ML"
    ELSE IF StartsWith(n, <<"b","u","s","i","n","e","s","s","_">>) \/ StartsWith(n, <<"c","l","a","i","m","s","_">>)
         THEN "FraudDetection/Business"
    ELSE IF StartsWith(n, <<"c","o","s","t","_">>) \/ Contains(n, <<"c","o","s","t">>)
         THEN "FraudDetection/Cost"
    ELSE IF StartsWith(n, <<"s","e","c","u","r","i","t","y","_">>) THEN "FraudDetection/Security"
    ELSE "FraudDetection/Custom"

----------------------------------------------------------------------------
\* Values

\* A Python str built at run time is the sequence of its fragments; a literal
\* is one fragment.
Lit(s) == <<s>>

\* str(n) for the integers the model formats
StrOfInt(n) ==
    CASE n = 1 -> "1"
      [] n = 200 -> "200"
      [] n = 399 -> "399"
      [] n = 400 -> "400"
      [] n = 404 -> "404"
      [] n = 499 -> "499"
      [] n = 500 -> "500"
      [] n = 503 -> "503"

\* dict.get(key, default)
PyGet(d, k, default) == IF k \in DOMAIN d THEN d[k] ELSE default

\* A claim feature value: a number, a str that float() parses, or a str that
\* float() rejects with ValueError.
Num(n) == [type |-> "number", num |-> n]
NumStr(n) == [type |-> "numeric_str", num |-> n]
BadStr == [type |-> "other_str", num |-> 0]

\* float(v) raises ValueError
FloatRaises(v) == v.type = "other_str"

\* float(v) when it does not raise
Float(v) == v.num

----------------------------------------------------------------------------
\* The metric buffer

\* MetricData(name, value, unit, timestamp, dimensions)
MetricData(id, name, value, unit, timestamp, dimensions) ==
    [id |-> id, name |-> name, value |-> value, unit |-> unit,
     timestamp |-> timestamp, dimensions |-> dimensions]

\* A call _record_metric(name, value, unit, dimensions, timestamp) to be made
Rec(name, value, unit, dimensions) ==
    [name |-> name, value |-> value, unit |-> unit, dimensions |-> dimensions]

\* record_metric inserting at the head of the list instead of appending
record_metric_at_head(buf, metric) ==
    IF DictHas(buf, metric.name)
    THEN LET i == CHOOSE j \in 1..Len(buf) : buf[j].key = metric.name
         IN  [buf EXCEPT ![i].list = <<metric>> \o @]
    ELSE Append(buf, [key |-> metric.name, list |-> <<metric>>])

\* _record_metric: self.metric_buffer[name].append(metric)
record_metric(buf, metric) == DictAppend(buf, metric.name, metric)

\* The _record_metric calls `recs` of one handler, in program order; the
\* first one creates the object with identity `id`.
RECURSIVE record_all(_, _, _, _)
record_all(buf, recs, id, timestamp) ==
    IF recs = <<>> THEN buf
    ELSE LET r == Head(recs) IN
         record_all(
             record_metric(buf, MetricData(id, r.name, r.value, r.unit,
                                           timestamp, r.dimensions)),
             Tail(recs), id + 1, timestamp)

\* DequeAppend of a deque that never evicts
DequeAppend_unbounded(d, v) == Append(d, v)

\* deque(maxlen=1000).append(v)
DequeAppend(d, v) ==
    IF Len(d) >= DequeMaxLen THEN Append(Tail(d), v) ELSE Append(d, v)

----------------------------------------------------------------------------
\* flush_metrics: grouping and batching

\* the dict built for one metric; 'Dimensions' only if metric.dimensions
metric_data(metric) ==
    IF metric.dimensions # <<>>
    THEN [MetricName |-> metric.name, Value |-> metric.value,
          Unit |-> metric.unit, Timestamp |-> metric.timestamp,
          Dimensions |-> metric.dimensions, id |-> metric.id]
    ELSE [MetricName |-> metric.name, Value |-> metric.value,
          Unit |-> metric.unit, Timestamp |-> metric.timestamp,
          id |-> metric.id]

\* d[k].append(v) for every v of vs, in order
DictExtend(d, k, vs) ==
    LET extend(dict) ==
            IF DictHas(dict, k)
            THEN LET i == CHOOSE j \in 1..Len(dict) : dict[j].key = k
                 IN  [dict EXCEPT ![i].list = @ \o vs]
            ELSE Append(dict, [key |-> k, list |-> vs])
    IN  CHOOSE r \in {extend(y) : y \in {d}} : TRUE

\* the dict d after the appends that made the first n entries of the dict
\* later out of an empty dict
RECURSIVE DictExtendAll(_, _, _)
DictExtendAll(d, later, n) ==
    IF n = 0 THEN d
    ELSE DictExtend(DictExtendAll(d, later, n - 1), later[n].key, later[n].list)

\* namespaced_metrics after the loop body
\* namespaced_metrics[namespace].append(metric_data) has run for the items
\* lo..hi, starting from an empty dict.  The run over lo..hi is the run over
\* lo..mid followed by the appends of the run over mid+1..hi, which keeps
\* the evaluation shallow for long buffers.
RECURSIVE group_range(_, _, _)
group_range(items, lo, hi) ==
    IF lo > hi THEN <<>>
    ELSE IF lo = hi
         THEN DictAppend(<<>>, get_metric_namespace(items[lo].name),
                         metric_data(items[lo]))
         ELSE CHOOSE r \in
                  {DictExtendAll(halves[1], halves[2], Len(halves[2])) :
                       halves \in {<<group_range(items, lo, (lo + hi) \div 2),
                                     group_range(items, (lo + hi) \div 2 + 1, hi)>>}} :
                  TRUE

\* namespaced_metrics after the loop body has run for the first n items
group_by_namespace(items, n) == group_range(items, 1, n)

\* namespaced_metrics skipping the first observation of the buffer
namespaced_metrics_skip_first(buf) ==
    LET group(items) == group_by_namespace(items, Len(items))
        rest(items) == IF items = <<>> THEN <<>> ELSE Tail(items)
    IN  CHOOSE r \in {group(rest(y)) : y \in {DictItems(buf)}} : TRUE

\* namespaced_metrics once the loops over the buffer are done
namespaced_metrics(buf) ==
    LET group(items) == group_by_namespace(items, Len(items))
    IN  CHOOSE r \in {group(y) : y \in {DictItems(buf)}} : TRUE

\* batches slicing metrics[i:i+21]
batches_slice_21(metrics) ==
    [k \in 1..((Len(metrics) + BatchSize - 1) \div BatchSize) |->
        Slice(metrics, (k - 1) * BatchSize, (k - 1) * BatchSize + BatchSize + 1)]

\* batches stepping by 21: range(0, len(metrics), 21)
batches_step_21(metrics) ==
    [k \in 1..((Len(metrics) + BatchSize) \div (BatchSize + 1)) |->
        Slice(metrics, (k - 1) * (BatchSize + 1), (k - 1) * (BatchSize + 1) + BatchSize)]

\* [metrics[i:i+20] for i in range(0, len(metrics), 20)]
batches(metrics) ==
    [k \in 1..((Len(metrics) + BatchSize - 1) \div BatchSize) |->
        Slice(metrics, (k - 1) * BatchSize, (k - 1) * BatchSize + BatchSize)]

\* the put_metric_data calls for one namespace: one per batch
namespace_calls(namespace, bs) ==
    [k \in 1..Len(bs) |-> [Namespace |-> namespace, MetricData |-> bs[k]]]

\* the put_metric_data calls for the grouped metrics nm, in program order
calls_of(nm) ==
    Flatten([i \in 1..Len(nm) |-> namespace_calls(nm[i].key, batches(nm[i].list))])

\* the put_metric_data calls of one flush, in program order
put_calls(buf) == CHOOSE r \in {calls_of(y) : y \in {namespaced_metrics(buf)}} : TRUE

\* buffer_after_flush with clear() in a finally clause
buffer_after_flush_always_clear(buf, failed) == <<>>

\* buffer_after_flush with clear() missing
buffer_after_flush_never_clear(buf, failed) == buf

\* self.metric_buffer.clear() is reached only if no put_metric_data raised
buffer_after_flush(buf, failed) == IF failed THEN buf ELSE <<>>

\* flush_result without the except clause
flush_result_propagating(failed) == IF failed THEN "raised" ELSE "returned"

\* try: ... except Exception: logger.error(...)
flush_result(failed) == "returned"

Ids(batch) == {batch[i].id : i \in 1..Len(batch)}

\* number of observations in the buffer
BufferSize(buf) == Len(DictItems(buf))

\* ids of the observations in the buffer
BufferIds(buf) ==
    LET ids(items) == {items[i].id : i \in 1..Len(items)}
    IN  CHOOSE r \in {ids(y) : y \in {DictItems(buf)}} : TRUE

----------------------------------------------------------------------------
\* Inputs of the handlers

PredictionInputs ==
    { [risk_level |-> "HIGH", model_version |-> "2.0",
       fraud_probability |-> 9, confidence |-> 8],
      [model_version |-> "2.0"] }

ProcessingTimes == {12}

ClaimInputs ==
    { [policy_state |-> Num(1)],
      [months_as_customer |-> Num(12), age |-> BadStr, claim_ratio |-> Num(2)],
      [months_as_customer |-> Num(12), age |-> Num(30),
       total_claim_amount |-> Num(5000), claim_ratio |-> NumStr(2),
       incident_severity |-> Num(3)] }

StatusCodes == {200, 404, 500}

\* what sagemaker.describe_endpoint answers: an error, or the production variant
EndpointInfos ==
    { [error |-> TRUE, InstanceType |-> "", CurrentInstanceCount |-> 0],
      [error |-> FALSE, InstanceType |-> "ml.m5.large", CurrentInstanceCount |-> 2],
      [error |-> FALSE, InstanceType |-> "ml.c5.large", CurrentInstanceCount |-> 1] }

EventTypes == {"authentication", "access"}

Statuses == {"failed", "success"}

SourceIps == { <<"1","9","2",".","1","6","8",".","1","0",".","7">> }

----------------------------------------------------------------------------
\* collect_prediction_metrics

\* key_features without its last entry
key_features_without_severity ==
    <<"months_as_customer", "age", "total_claim_amount", "claim_ratio">>

key_features ==
    <<"months_as_customer", "age", "total_claim_amount", "claim_ratio",
      "incident_severity">>

\* f'feature_{feature}'
FeatureMetricName ==
    [months_as_customer |-> "feature_months_as_customer",
     age |-> "feature_age",
     total_claim_amount |-> "feature_total_claim_amount",
     claim_ratio |-> "feature_claim_ratio",
     incident_severity |-> "feature_incident_severity"]

\* feature_recs going on with the next key feature after a value float()
\* rejects
RECURSIVE feature_recs_skip_bad(_, _)
feature_recs_skip_bad(claim_data, features) ==
    IF features = <<>> THEN <<>>
    ELSE LET f == Head(features) IN
         IF f \notin DOMAIN claim_data \/ FloatRaises(claim_data[f])
         THEN feature_recs_skip_bad(claim_data, Tail(features))
         ELSE <<Rec(FeatureMetricName[f], Float(claim_data[f]), "None",
                    <<<<"FeatureType", Lit("input")>>>>)>>
              \o feature_recs_skip_bad(claim_data, Tail(features))

\* the _record_metric calls _collect_feature_metrics makes before it returns
\* or float() raises
RECURSIVE feature_recs(_, _)
feature_recs(claim_data, features) ==
    IF features = <<>> THEN <<>>
    ELSE LET f == Head(features) IN
         IF f \notin DOMAIN claim_data
         THEN feature_recs(claim_data, Tail(features))
         ELSE IF FloatRaises(claim_data[f]) THEN <<>>
         ELSE <<Rec(FeatureMetricName[f], Float(claim_data[f]), "None",
                    <<<<"FeatureType", Lit("input")>>>>)>>
              \o feature_recs(claim_data, Tail(features))

\* float(claim_data[feature]) raises for some present key feature; nothing in
\* _collect_feature_metrics or collect_prediction_metrics catches it
collect_feature_metrics_raises(claim_data) ==
    \E i \in 1..Len(key_features) :
        /\ key_features[i] \in DOMAIN claim_data
        /\ FloatRaises(claim_data[key_features[i]])

prediction_recs(prediction_data, processing_time) ==
    << Rec("prediction_processing_time", processing_time, "Milliseconds",
           << <<"RiskLevel", Lit(PyGet(prediction_data, "risk_level", "UNKNOWN"))>>,
              <<"ModelVersion", Lit(PyGet(prediction_data, "model_version", "1.0"))>> >>),
       Rec("fraud_probability", PyGet(prediction_data, "fraud_probability", 0), "None",
           << <<"RiskLevel", Lit(PyGet(prediction_data, "risk_level", "UNKNOWN"))>> >>),
       Rec("model_confidence", PyGet(prediction_data, "confidence", 0), "None",
           << <<"ModelVersion", Lit(PyGet(prediction_data, "model_version", "1.0"))>> >>) >>

\* collect_prediction_metrics appending the confidence only after
\* _collect_feature_metrics has returned
collect_prediction_metrics_late_append(prediction_data, processing_time, claim_data) ==
    LET recs == prediction_recs(prediction_data, processing_time)
                    \o feature_recs(claim_data, key_features)
    IN  /\ metric_buffer' = record_all(metric_buffer, recs, next_id, now + 1)
        /\ next_id' = next_id + Len(recs)
        /\ fraud_probabilities' =
               DequeAppend(fraud_probabilities,
                           PyGet(prediction_data, "fraud_probability", 0))
        /\ confidences' =
               IF collect_feature_metrics_raises(claim_data) THEN confidences
               ELSE DequeAppend(confidences, PyGet(prediction_data, "confidence", 0))
        /\ now' = now + 1
        /\ outcome' = [op |-> "collect_prediction_metrics",
                       result |-> IF collect_feature_metrics_raises(claim_data)
                                  THEN "raised" ELSE "returned",
                       prediction_data |-> prediction_data,
                       claim_data |-> claim_data]
        /\ UNCHANGED <<baseline_metrics, flush_thread, published, sink_log,
                       delivered>>

collect_prediction_metrics(prediction_data, processing_time, claim_data) ==
    LET recs == prediction_recs(prediction_data, processing_time)
                    \o feature_recs(claim_data, key_features)
    IN  /\ metric_buffer' = record_all(metric_buffer, recs, next_id, now + 1)
        /\ next_id' = next_id + Len(recs)
        /\ fraud_probabilities' =
               DequeAppend(fraud_probabilities,
                           PyGet(prediction_data, "fraud_probability", 0))
        /\ confidences' =
               DequeAppend(confidences, PyGet(prediction_data, "confidence", 0))
        /\ now' = now + 1
        /\ outcome' = [op |-> "collect_prediction_metrics",
                       result |-> IF collect_feature_metrics_raises(claim_data)
                                  THEN "raised" ELSE "returned",
                       prediction_data |-> prediction_data,
                       claim_data |-> claim_data]
        /\ UNCHANGED <<baseline_metrics, flush_thread, published, sink_log,
                       delivered>>

----------------------------------------------------------------------------
\* collect_api_metrics

\* api_recs counting an error only for status_code > 400
api_recs_error_above_400(endpoint, method, status_code, response_time, request_size, response_size) ==
    << Rec("api_request_duration", response_time, "Seconds",
           << <<"Endpoint", Lit(endpoint)>>, <<"Method", Lit(method)>>,
              <<"StatusCode", Lit(StrOfInt(status_code))>> >>),
       Rec("api_request_size", request_size, "Bytes",
           << <<"Endpoint", Lit(endpoint)>>, <<"Method", Lit(method)>> >>),
       Rec("api_response_size", response_size, "Bytes",
           << <<"Endpoint", Lit(endpoint)>>,
              <<"StatusCode", Lit(StrOfInt(status_code))>> >>) >>
    \o IF status_code > 400
       THEN << Rec("api_errors_total", 1, "Count",
                   << <<"Endpoint", Lit(endpoint)>>,
                      <<"StatusCode", Lit(StrOfInt(status_code))>>,
                      <<"ErrorType",
                        Lit(IF status_code < 500 THEN "client" ELSE "server")>> >>) >>
       ELSE <<>>

api_recs(endpoint, method, status_code, response_time, request_size, response_size) ==
    << Rec("api_request_duration", response_time, "Seconds",
           << <<"Endpoint", Lit(endpoint)>>, <<"Method", Lit(method)>>,
              <<"StatusCode", Lit(StrOfInt(status_code))>> >>),
       Rec("api_request_size", request_size, "Bytes",
           << <<"Endpoint", Lit(endpoint)>>, <<"Method", Lit(method)>> >>),
       Rec("api_response_size", response_size, "Bytes",
           << <<"Endpoint", Lit(endpoint)>>,
              <<"StatusCode", Lit(StrOfInt(status_code))>> >>) >>
    \o IF status_code >= 400
       THEN << Rec("api_errors_total", 1, "Count",
                   << <<"Endpoint", Lit(endpoint)>>,
                      <<"StatusCode", Lit(StrOfInt(status_code))>>,
                      <<"ErrorType",
                        Lit(IF status_code < 500 THEN "client" ELSE "server")>> >>) >>
       ELSE <<>>

collect_api_metrics(endpoint, method, status_code, response_time, request_size, response_size) ==
    LET recs == api_recs(endpoint, method, status_code, response_time,
                         request_size, response_size)
    IN  /\ metric_buffer' = record_all(metric_buffer, recs, next_id, now + 1)
        /\ next_id' = next_id + Len(recs)
        /\ now' = now + 1
        /\ outcome' = [op |-> "collect_api_metrics", result |-> "returned",
                       status_code |-> status_code]
        /\ UNCHANGED <<fraud_probabilities, confidences, baseline_metrics,
                       flush_thread, published, sink_log, delivered>>

----------------------------------------------------------------------------
\* collect_business_metrics

\* what the DynamoDB prediction table holds when collect_business_metrics
\* runs; timestamp is in hours relative to the call
PredictionTables ==
    { <<>>,
      << [is_fraud |-> 0, risk_level |-> "LOW", fraud_probability |-> 1,
          confidence |-> 9, timestamp |-> -5],
         [is_fraud |-> 1, risk_level |-> "HIGH", fraud_probability |-> 9,
          confidence |-> 8, timestamp |-> 0] >> }

\* _get_recent_predictions(start_time, end_time): "simplified
\* implementation", returns [] whatever the table holds
get_recent_predictions(table, start_time, end_time) == <<>>

\* a / b as a fraction; the code divides only by a positive count
Frac(a, b) == [num |-> a, den |-> b]

\* sum(xs)
RECURSIVE SumSeq(_)
SumSeq(xs) == IF xs = <<>> THEN 0 ELSE Head(xs) + SumSeq(Tail(xs))

\* x < n/100 and x > n/100 for a fraction x with positive denominator
FracLt(x, n) == 100 * x.num < n * x.den
FracGt(x, n) == 100 * x.num > n * x.den

\* check_business_anomalies with Severity HIGH from fraud_rate >= 0.4 on
check_business_anomalies_high_from_40(fraud_rate, avg_fraud_prob, avg_confidence) ==
    (IF ~(~FracLt(fraud_rate, 5) /\ ~FracGt(fraud_rate, 25))
     THEN << Rec("business_anomaly_detected", 1, "Count",
                 << <<"AnomalyType", Lit("FraudRate")>>,
                    <<"Severity",
                      Lit(IF ~FracLt(fraud_rate, 40) THEN "HIGH" ELSE "MEDIUM")>> >>) >>
     ELSE <<>>)
    \o
    (IF FracLt(avg_confidence, 60)
     THEN << Rec("business_anomaly_detected", 1, "Count",
                 << <<"AnomalyType", Lit("LowConfidence")>>,
                    <<"Severity", Lit("MEDIUM")>> >>) >>
     ELSE <<>>)

\* check_business_anomalies with avg_confidence <= 0.6 anomalous
check_business_anomalies_conf_at_60(fraud_rate, avg_fraud_prob, avg_confidence) ==
    (IF ~(~FracLt(fraud_rate, 5) /\ ~FracGt(fraud_rate, 25))
     THEN << Rec("business_anomaly_detected", 1, "Count",
                 << <<"AnomalyType", Lit("FraudRate")>>,
                    <<"Severity",
                      Lit(IF FracGt(fraud_rate, 40) THEN "HIGH" ELSE "MEDIUM")>> >>) >>
     ELSE <<>>)
    \o
    (IF ~FracGt(avg_confidence, 60)
     THEN << Rec("business_anomaly_detected", 1, "Count",
                 << <<"AnomalyType", Lit("LowConfidence")>>,
                    <<"Severity", Lit("MEDIUM")>> >>) >>
     ELSE <<>>)

\* the _record_metric calls of _check_business_anomalies; fraud_rate and
\* avg_confidence are fractions, the thresholds hundredths
check_business_anomalies(fraud_rate, avg_fraud_prob, avg_confidence) ==
    (IF ~(~FracLt(fraud_rate, 5) /\ ~FracGt(fraud_rate, 25))
     THEN << Rec("business_anomaly_detected", 1, "Count",
                 << <<"AnomalyType", Lit("FraudRate")>>,
                    <<"Severity",
                      Lit(IF FracGt(fraud_rate, 40) THEN "HIGH" ELSE "MEDIUM")>> >>) >>
     ELSE <<>>)
    \o
    (IF FracLt(avg_confidence, 60)
     THEN << Rec("business_anomaly_detected", 1, "Count",
                 << <<"AnomalyType", Lit("LowConfidence")>>,
                    <<"Severity", Lit("MEDIUM")>> >>) >>
     ELSE <<>>)

\* _check_business_anomalies(fraud_rate, avg_fraud_prob, avg_confidence) called
\* on its own
check_business_anomalies_call(fraud_rate, avg_fraud_prob, avg_confidence) ==
    LET recs == check_business_anomalies(fraud_rate, avg_fraud_prob, avg_confidence)
    IN  /\ metric_buffer' = record_all(metric_buffer, recs, next_id, now + 1)
        /\ next_id' = next_id + Len(recs)
        /\ now' = now + 1
        /\ outcome' = [op |-> "_check_business_anomalies", result |-> "returned",
                       fraud_rate |-> fraud_rate, avg_fraud_prob |-> avg_fraud_prob,
                       avg_confidence |-> avg_confidence]
        /\ UNCHANGED <<fraud_probabilities, confidences, baseline_metrics,
                       flush_thread, published, sink_log, delivered>>

\* the _record_metric calls of collect_business_metrics for a non-empty list
\* of predictions (fraud_probability and confidence in tenths)
business_recs(predictions, time_period_hours) ==
    LET CountIf(s, P(_)) == Cardinality({i \in 1..Len(s) : P(s[i])})
        SumOf(s, F(_)) == SumSeq([i \in 1..Len(s) |-> F(s[i])])
        total_claims == Len(predictions)
        IsFraud(p) == PyGet(p, "is_fraud", 0) = 1
        IsHighRisk(p) == PyGet(p, "risk_level", "") \in {"HIGH", "CRITICAL"}
        Prob(p) == PyGet(p, "fraud_probability", 0)
        Conf(p) == PyGet(p, "confidence", 0)
        fraud_rate == Frac(CountIf(predictions, IsFraud), total_claims)
        high_risk_rate == Frac(CountIf(predictions, IsHighRisk), total_claims)
        avg_fraud_prob == Frac(SumOf(predictions, Prob), 10 * total_claims)
        avg_confidence == Frac(SumOf(predictions, Conf), 10 * total_claims)
        dims == << <<"TimePeriod", <<StrOfInt(time_period_hours), "h">> >> >>
    IN  << Rec("claims_processed_total", total_claims, "Count", dims),
           Rec("fraud_detection_rate", Frac(100 * fraud_rate.num, fraud_rate.den),
               "Percent", dims),
           Rec("high_risk_claims_rate",
               Frac(100 * high_risk_rate.num, high_risk_rate.den), "Percent", dims),
           Rec("average_fraud_probability", avg_fraud_prob, "None", dims),
           Rec("average_model_confidence", avg_confidence, "None", dims) >>
        \o check_business_anomalies(fraud_rate, avg_fraud_prob, avg_confidence)

collect_business_metrics(time_period_hours, table) ==
    LET predictions == get_recent_predictions(table, 0 - time_period_hours, 0)
        recs == IF predictions = <<>> THEN <<>>
                ELSE business_recs(predictions, time_period_hours)
    IN  /\ metric_buffer' = record_all(metric_buffer, recs, next_id, now + 1)
        /\ next_id' = next_id + Len(recs)
        /\ now' = now + 1
        /\ outcome' = [op |-> "collect_business_metrics", result |-> "returned",
                       time_period_hours |-> time_period_hours, table |-> table]
        /\ UNCHANGED <<fraud_probabilities, confidences, baseline_metrics,
                       flush_thread, published, sink_log, delivered>>

----------------------------------------------------------------------------
\* collect_model_drift_metrics

\* if prob_drift > 0.15, in millionths
DriftThreshold == 150000

\* np.linspace(0, 1, 11) gives the edges 0, 0.1, 0.2, 0.30000000000000004,
\* 0.4, 0.5, 0.6000000000000001, 0.7000000000000001, 0.8, 0.9, 1: the bin
\* (0 to 9) np.histogram counts a value of v tenths in, the last bin closed
\* on the right; a value outside [0, 1] is counted in no bin
HistBin(v) ==
    IF v \in 0..10 THEN <<0, 1, 2, 2, 4, 5, 5, 6, 8, 9, 9>>[v + 1] ELSE -1

\* the counts of np.histogram(data, bins=bins) before density=True scales them
Histogram(data) ==
    [b \in 0..9 |-> Cardinality({i \in 1..Len(data) : HistBin(data[i]) = b})]

\* np.log(n) for n in 1..100, in millionths
LnMicro ==
    <<0, 693147, 1098612, 1386294, 1609438, 1791759, 1945910, 2079442,
       2197225, 2302585, 2397895, 2484907, 2564949, 2639057, 2708050, 2772589,
       2833213, 2890372, 2944439, 2995732, 3044522, 3091042, 3135494, 3178054,
       3218876, 3258097, 3295837, 3332205, 3367296, 3401197, 3433987, 3465736,
       3496508, 3526361, 3555348, 3583519, 3610918, 3637586, 3663562, 3688879,
       3713572, 3737670, 3761200, 3784190, 3806662, 3828641, 3850148, 3871201,
       3891820, 3912023, 3931826, 3951244, 3970292, 3988984, 4007333, 4025352,
       4043051, 4060443, 4077537, 4094345, 4110874, 4127134, 4143135, 4158883,
       4174387, 4189655, 4204693, 4219508, 4234107, 4248495, 4262680, 4276666,
       4290459, 4304065, 4317488, 4330733, 4343805, 4356709, 4369448, 4382027,
       4394449, 4406719, 4418841, 4430817, 4442651, 4454347, 4465908, 4477337,
       4488636, 4499810, 4510860, 4521789, 4532599, 4543295, 4553877, 4564348,
       4574711, 4584967, 4595120, 4605170>>

\* -np.log(epsilon / (10 + 10 * epsilon)) in millionths: the logarithm of the
\* normalised share of a bin that holds only epsilon = 1e-10
LnInvEpsilon == 25328436

\* kl_div with the baseline histogram left as counts, not normalised
kl_div_counts_baseline(c, n, b, m) ==
    LET term(i) ==
            IF c[i] = 0 THEN 0
            ELSE IF b[i] = 0
                 THEN c[i] * (LnMicro[c[i]] - LnMicro[n] + LnInvEpsilon)
                 ELSE c[i] * (LnMicro[c[i]] - LnMicro[n] - LnMicro[b[i]])
    IN  SumSeq([i \in 1..10 |-> term(i - 1)]) \div n

\* np.sum(current_hist * np.log(current_hist / baseline_hist)) in millionths,
\* for the counts c (of n values) and b (of m values).  A bin of the current
\* sample that holds only epsilon contributes less than one millionth.
kl_div(c, n, b, m) ==
    LET term(i) ==
            IF c[i] = 0 THEN 0
            ELSE IF b[i] = 0
                 THEN c[i] * (LnMicro[c[i]] - LnMicro[n] + LnInvEpsilon)
                 ELSE c[i] * (LnMicro[c[i]] - LnMicro[n]
                              + LnMicro[m] - LnMicro[b[i]])
    IN  SumSeq([i \in 1..10 |-> term(i - 1)]) \div n

\* _calculate_distribution_drift(current_data, baseline_data): the divergence
\* in millionths, kept with the two samples it was computed from.  A sample
\* with no value in [0, 1] has a 0/0 density: the result is nan, not an
\* exception.
calculate_distribution_drift(current_data, baseline_data) ==
    LET c == Histogram(current_data)
        b == Histogram(baseline_data)
        n == SumSeq([i \in 1..10 |-> c[i - 1]])
        m == SumSeq([i \in 1..10 |-> b[i - 1]])
    IN  [kl_current |-> current_data, kl_baseline |-> baseline_data,
         nan |-> (n = 0 \/ m = 0),
         kl_div |-> IF n = 0 \/ m = 0 THEN 0 ELSE kl_div(c, n, b, m)]

\* _calculate_distribution_drift called on two samples
calculate_distribution_drift_call(current_data, baseline_data) ==
    /\ outcome' = [op |-> "_calculate_distribution_drift", result |-> "returned",
                   drift |-> calculate_distribution_drift(current_data,
                                                          baseline_data)]
    /\ UNCHANGED <<metric_buffer, fraud_probabilities, confidences,
                   baseline_metrics, flush_thread, published, sink_log,
                   delivered, now, next_id>>

\* drift > 0.15 (False for nan)
exceeds_threshold(drift) == ~drift.nan /\ drift.kl_div > DriftThreshold

\* drift_recs recording without the window precondition
drift_recs_unguarded ==
    LET current_probs == LastN(fraud_probabilities, drift_window_size)
        current_confidences == LastN(confidences, drift_window_size)
    IN  << Rec("prediction_drift_score",
               calculate_distribution_drift(
                   current_probs, Slice(current_probs, 0, BootstrapLen)),
               "None", << <<"DriftType", Lit("FraudProbability")>> >>),
           Rec("confidence_drift_score",
               calculate_distribution_drift(
                   current_confidences, Slice(current_confidences, 0, BootstrapLen)),
               "None", << <<"DriftType", Lit("ModelConfidence")>> >>) >>

\* the _record_metric calls of collect_model_drift_metrics
drift_recs ==
    IF Len(fraud_probabilities) < drift_window_size THEN <<>>
    ELSE LET current_probs == LastN(fraud_probabilities, drift_window_size)
             current_confidences == LastN(confidences, drift_window_size)
             prob_drift ==
                 calculate_distribution_drift(
                     current_probs,
                     PyGet(baseline_metrics, "fraud_probabilities",
                           Slice(current_probs, 0, BootstrapLen)))
             confidence_drift ==
                 calculate_distribution_drift(
                     current_confidences,
                     PyGet(baseline_metrics, "confidences",
                           Slice(current_confidences, 0, BootstrapLen)))
         IN  << Rec("prediction_drift_score", prob_drift, "None",
                    << <<"DriftType", Lit("FraudProbability")>> >>),
                Rec("confidence_drift_score", confidence_drift, "None",
                    << <<"DriftType", Lit("ModelConfidence")>> >>) >>

\* the module does not import os: os.environ.get(...) raises NameError
os_imported == FALSE

\* the sns.publish calls of _send_drift_alert(drift_type, drift_score), where
\* topic_arn is what the environment holds for SNS_TOPIC_ARN ("" if unset).
\* The NameError of os.environ is caught by the except clause at the end.
send_drift_alert(drift_type, drift_score, topic_arn) ==
    IF ~os_imported THEN <<>>
    ELSE IF topic_arn # ""
         THEN << [TopicArn |-> topic_arn,
                  Subject |-> <<"Model Drift Alert: ", drift_type>>] >>
         ELSE <<>>

\* the sns.publish calls of collect_model_drift_metrics
drift_alerts(recs, topic_arn) ==
    IF recs = <<>> THEN <<>>
    ELSE (IF exceeds_threshold(recs[1].value)
          THEN send_drift_alert("Fraud Probability", recs[1].value, topic_arn)
          ELSE <<>>)
         \o
         (IF exceeds_threshold(recs[2].value)
          THEN send_drift_alert("Model Confidence", recs[2].value, topic_arn)
          ELSE <<>>)

\* what the environment holds for SNS_TOPIC_ARN
TopicArns == {"", "arn:aws:sns:us-east-1:1:drift"}

collect_model_drift_metrics(topic_arn) ==
    \E recs \in {drift_recs} :
        /\ metric_buffer' = record_all(metric_buffer, recs, next_id, now + 1)
        /\ next_id' = next_id + Len(recs)
        /\ published' = published \o drift_alerts(recs, topic_arn)
        /\ now' = now + 1
        /\ outcome' = [op |-> "collect_model_drift_metrics", result |-> "returned",
                       topic_arn |-> topic_arn]
        /\ UNCHANGED <<fraud_probabilities, confidences, baseline_metrics,
                       flush_thread, sink_log, delivered>>

----------------------------------------------------------------------------
\* collect_cost_metrics

\* instance_costs.get(instance_type, 0.134), in thousandths of a dollar
instance_cost(instance_type) ==
    CASE instance_type = "ml.t2.medium" -> 65
      [] instance_type = "ml.m5.large" -> 134
      [] instance_type = "ml.m5.xlarge" -> 269
      [] instance_type = "ml.m5.2xlarge" -> 538
      [] OTHER -> 134

\* _get_hourly_prediction_count
get_hourly_prediction_count == Len(fraud_probabilities)

\* the _record_metric calls of collect_cost_metrics: none when the try block
\* raises (NameError on os, or describe_endpoint failing), which the except
\* clause logs
cost_recs(endpoint_info) ==
    IF ~os_imported \/ endpoint_info.error THEN <<>>
    ELSE LET instance_type == endpoint_info.InstanceType
             instance_count == endpoint_info.CurrentInstanceCount
             hourly_cost == instance_cost(instance_type) * instance_count
             hourly_predictions == get_hourly_prediction_count
             cost_per_prediction ==
                 IF hourly_predictions > 0
                 THEN Frac(hourly_cost, 1000 * hourly_predictions) ELSE Frac(0, 1)
             predictions_per_dollar ==
                 IF hourly_cost > 0
                 THEN Frac(1000 * hourly_predictions, hourly_cost) ELSE Frac(0, 1)
             dims == << <<"InstanceType", Lit(instance_type)>> >>
         IN  << Rec("sagemaker_hourly_cost", Frac(hourly_cost, 1000), "None", dims),
                Rec("cost_per_prediction", cost_per_prediction, "None", dims),
                Rec("predictions_per_dollar", predictions_per_dollar, "Count", dims),
                Rec("active_instances", instance_count, "Count", dims) >>

collect_cost_metrics(endpoint_info) ==
    LET recs == cost_recs(endpoint_info)
    IN  /\ metric_buffer' = record_all(metric_buffer, recs, next_id, now + 1)
        /\ next_id' = next_id + Len(recs)
        /\ now' = now + 1
        /\ outcome' = [op |-> "collect_cost_metrics", result |-> "returned",
                       endpoint_info |-> endpoint_info]
        /\ UNCHANGED <<fraud_probabilities, confidences, baseline_metrics,
                       flush_thread, published, sink_log, delivered>>

----------------------------------------------------------------------------
\* collect_security_metrics

\* _get_ip_region telling the 10.x addresses from the others
get_ip_region_private(ip_address) ==
    IF Len(ip_address) > 2 /\ ip_address[1] = "1" /\ ip_address[2] = "0"
                           /\ ip_address[3] = "."
    THEN "private" ELSE "unknown"

\* _get_ip_region: "simplified implementation"
get_ip_region(ip_address) == "unknown"

\* security_recs with the whole source IP in the SourceIP dimension
security_recs_full_ip(event_type, source_ip, status) ==
    << Rec("security_events_total", 1, "Count",
           << <<"EventType", Lit(event_type)>>, <<"Status", Lit(status)>>,
              <<"SourceRegion", Lit("unknown")>> >>) >>
    \o IF event_type = "authentication" /\ status = "failed"
       THEN << Rec("failed_authentication_attempts", 1, "Count",
                   << <<"SourceIP", source_ip \o Lit("xxx")>> >>) >>
       ELSE <<>>

security_recs(event_type, source_ip, status) ==
    << Rec("security_events_total", 1, "Count",
           << <<"EventType", Lit(event_type)>>, <<"Status", Lit(status)>>,
              <<"SourceRegion", Lit(get_ip_region(source_ip))>> >>) >>
    \o IF event_type = "authentication" /\ status = "failed"
       THEN << Rec("failed_authentication_attempts", 1, "Count",
                   << <<"SourceIP", Slice(source_ip, 0, 8) \o Lit("xxx")>> >>) >>
       ELSE <<>>

collect_security_metrics(event_type, source_ip, user_agent, status) ==
    LET recs == security_recs(event_type, source_ip, status)
    IN  /\ metric_buffer' = record_all(metric_buffer, recs, next_id, now + 1)
        /\ next_id' = next_id + Len(recs)
        /\ now' = now + 1
        /\ outcome' = [op |-> "collect_security_metrics", result |-> "returned",
                       event_type |-> event_type, source_ip |-> source_ip,
                       status |-> status]
        /\ UNCHANGED <<fraud_probabilities, confidences, baseline_metrics,
                       flush_thread, published, sink_log, delivered>>

----------------------------------------------------------------------------
\* _record_metric called directly with a metric name

record_metric_call(name, value, unit) ==
    LET recs == << Rec(name, value, unit, <<>>) >>
    IN  /\ metric_buffer' = record_all(metric_buffer, recs, next_id, now + 1)
        /\ next_id' = next_id + Len(recs)
        /\ now' = now + 1
        /\ outcome' = [op |-> "_record_metric", result |-> "returned"]
        /\ UNCHANGED <<fraud_probabilities, confidences, baseline_metrics,
                       flush_thread, published, sink_log, delivered>>

----------------------------------------------------------------------------
\* flush_metrics.  fail_at is the put_metric_data call that raises (0: none).

\* flush_metrics emptying the rolling series together with the buffer
flush_metrics_clearing_series(fail_at) ==
    IF metric_buffer = <<>>
    THEN /\ sink_log' = <<>>
         /\ outcome' = [op |-> "flush_metrics", result |-> "returned"]
         /\ UNCHANGED <<metric_buffer, fraud_probabilities, confidences,
                        baseline_metrics, flush_thread, published, delivered,
                        now, next_id>>
    ELSE \E calls \in {put_calls(metric_buffer)} :
         LET failed == fail_at \in 1..Len(calls)
             made == IF failed THEN fail_at ELSE Len(calls)
         IN  /\ fail_at \in 0..Len(calls)
             /\ sink_log' = [i \in 1..made |->
                                [Namespace |-> calls[i].Namespace,
                                 MetricData |-> calls[i].MetricData,
                                 accepted |-> i # fail_at]]
             /\ delivered' = delivered \cup
                    UNION {Ids(calls[i].MetricData) : i \in 1..made \ {fail_at}}
             /\ metric_buffer' = buffer_after_flush(metric_buffer, failed)
             /\ fraud_probabilities' = IF failed THEN fraud_probabilities ELSE <<>>
             /\ confidences' = IF failed THEN confidences ELSE <<>>
             /\ outcome' = [op |-> "flush_metrics", result |-> flush_result(failed)]
             /\ UNCHANGED <<baseline_metrics, flush_thread, published, now,
                            next_id>>

flush_metrics(fail_at) ==
    IF metric_buffer = <<>>
    THEN /\ sink_log' = <<>>
         /\ outcome' = [op |-> "flush_metrics", result |-> "returned"]
         /\ UNCHANGED <<metric_buffer, fraud_probabilities, confidences,
                        baseline_metrics, flush_thread, published, delivered,
                        now, next_id>>
    ELSE \E calls \in {put_calls(metric_buffer)} :
         LET failed == fail_at \in 1..Len(calls)
             made == IF failed THEN fail_at ELSE Len(calls)
         IN  /\ fail_at \in 0..Len(calls)
             /\ sink_log' = [i \in 1..made |->
                                [Namespace |-> calls[i].Namespace,
                                 MetricData |-> calls[i].MetricData,
                                 accepted |-> i # fail_at]]
             /\ delivered' = delivered \cup
                    UNION {Ids(calls[i].MetricData) : i \in 1..made \ {fail_at}}
             /\ metric_buffer' = buffer_after_flush(metric_buffer, failed)
             /\ outcome' = [op |-> "flush_metrics", result |-> flush_result(failed)]
             /\ UNCHANGED <<fraud_probabilities, confidences, baseline_metrics,
                            flush_thread, published, now, next_id>>

----------------------------------------------------------------------------
\* flush_metrics in a thread of its own, beside the thread that records.
\* Nothing in flush_metrics or _record_metric takes a lock, so recording
\* calls run between the steps below.

\* no flush_metrics call is running in the other thread
Idle == [pc |-> "idle", size |-> 0, calls |-> <<>>, made |-> 0]

\* `if not self.metric_buffer: return`, then the loop over
\* self.metric_buffer.values() starts on a dict of `size` keys
flush_begin ==
    /\ flush_thread.pc = "idle"
    /\ metric_buffer # <<>>
    /\ flush_thread' = [pc |-> "grouping", size |-> Len(metric_buffer),
                        calls |-> <<>>, made |-> 0]
    /\ sink_log' = <<>>
    /\ UNCHANGED <<metric_buffer, fraud_probabilities, confidences,
                   baseline_metrics, published, delivered, outcome, now,
                   next_id>>

\* the grouping loops end: with namespaced_metrics built from the buffer,
\* or, when a key was added to the dict meanwhile, with the RuntimeError of
\* the dict iterator, which the except clause logs
flush_group ==
    /\ flush_thread.pc = "grouping"
    /\ IF Len(metric_buffer) # flush_thread.size
       THEN /\ flush_thread' = Idle
            /\ outcome' = [op |-> "flush_metrics", result |-> flush_result(TRUE)]
       ELSE /\ flush_thread' = [pc |-> "putting", size |-> flush_thread.size,
                                calls |-> put_calls(metric_buffer), made |-> 0]
            /\ UNCHANGED outcome
    /\ UNCHANGED <<metric_buffer, fraud_probabilities, confidences,
                   baseline_metrics, published, sink_log, delivered, now,
                   next_id>>

\* the next put_metric_data call: accepted, or it raises and the except
\* clause ends the flush
flush_put(accepted) ==
    /\ flush_thread.pc = "putting"
    /\ flush_thread.made < Len(flush_thread.calls)
    /\ LET call == flush_thread.calls[flush_thread.made + 1]
       IN  /\ sink_log' = Append(sink_log,
                                 [Namespace |-> call.Namespace,
                                  MetricData |-> call.MetricData,
                                  accepted |-> accepted])
           /\ delivered' = IF accepted
                           THEN delivered \cup Ids(call.MetricData)
                           ELSE delivered
    /\ IF accepted
       THEN /\ flush_thread' = [flush_thread EXCEPT !.made = @ + 1]
            /\ UNCHANGED <<metric_buffer, outcome>>
       ELSE /\ flush_thread' = Idle
            /\ metric_buffer' = buffer_after_flush(metric_buffer, TRUE)
            /\ outcome' = [op |-> "flush_metrics", result |-> flush_result(TRUE)]
    /\ UNCHANGED <<fraud_probabilities, confidences, baseline_metrics,
                   published, now, next_id>>

\* self.metric_buffer.clear() after the last put_metric_data call
flush_clear ==
    /\ flush_thread.pc = "putting"
    /\ flush_thread.made = Len(flush_thread.calls)
    /\ metric_buffer' = buffer_after_flush(metric_buffer, FALSE)
    /\ flush_thread' = Idle
    /\ outcome' = [op |-> "flush_metrics", result |-> flush_result(FALSE)]
    /\ UNCHANGED <<fraud_probabilities, confidences, baseline_metrics,
                   published, sink_log, delivered, now, next_id>>

----------------------------------------------------------------------------
\* MetricsCollector.__init__

Init ==
    /\ metric_buffer = <<>>
    /\ fraud_probabilities = <<>>
    /\ confidences = <<>>
    /\ baseline_metrics = <<>>
    /\ sink_log = <<>>
    /\ delivered = {}
    /\ published = <<>>
    /\ flush_thread = Idle
    /\ outcome = [op |-> "__init__", result |-> "returned"]
    /\ now = 0
    /\ next_id = 1

\* the put_metric_data calls a flush of the current buffer can make
MaxPutCalls == Len(put_calls(metric_buffer))

Next ==
    \/ /\ now < MaxCalls
       /\ \E pd \in PredictionInputs, t \in ProcessingTimes, cd \in ClaimInputs :
              collect_prediction_metrics(pd, t, cd)
    \/ /\ now < MaxCalls
       /\ \E sc \in StatusCodes :
              collect_api_metrics("/predict", "POST", sc, 2, 512, 64)
    \/ /\ now < MaxCalls
       /\ \E table \in PredictionTables : collect_business_metrics(1, table)
    \/ /\ now < MaxCalls
       /\ \E topic_arn \in TopicArns : collect_model_drift_metrics(topic_arn)
    \/ /\ now < MaxCalls
       /\ \E info \in EndpointInfos : collect_cost_metrics(info)
    \/ /\ now < MaxCalls
       /\ \E et \in EventTypes, ip \in SourceIps, st \in Statuses :
              collect_security_metrics(et, ip, "curl", st)
    \/ \E fail_at \in 0..MaxPutCalls : flush_metrics(fail_at)

Spec == Init /\ [][Next]_vars

----------------------------------------------------------------------------
\* Scenario specifications: many recording calls, then one flush.

\* no put_metric_data call has been made yet
NoPutYet == sink_log = <<>>

BatchStatusCodes == {200, 500}

\* collect_api_metrics calls only: every observation is in FraudDetection/API
NextBatch ==
    \/ /\ now < MaxBatchCalls
       /\ NoPutYet
       /\ \E sc \in BatchStatusCodes :
              collect_api_metrics("/predict", "POST", sc, 2, 512, 64)
    \/ /\ NoPutYet
       /\ \E fail_at \in 0..MaxPutCalls : flush_metrics(fail_at)

SpecBatch == Init /\ [][NextBatch]_vars

PredClaimInputs ==
    { [months_as_customer |-> Num(12), age |-> Num(30),
       total_claim_amount |-> Num(5000), claim_ratio |-> Num(2)],
      [months_as_customer |-> Num(12), age |-> Num(30),
       total_claim_amount |-> Num(5000), claim_ratio |-> Num(2),
       incident_severity |-> Num(3)] }

PredInput ==
    [risk_level |-> "HIGH", model_version |-> "2.0",
     fraud_probability |-> 9, confidence |-> 8]

\* collect_prediction_metrics calls only: FraudDetection/ML and
\* FraudDetection/Custom, five or six Custom observations a call
NextPred ==
    \/ /\ now < MaxPredCalls
       /\ NoPutYet
       /\ \E cd \in PredClaimInputs : collect_prediction_metrics(PredInput, 12, cd)
    \/ /\ NoPutYet
       /\ \E fail_at \in 0..MaxPutCalls : flush_metrics(fail_at)

SpecPred == Init /\ [][NextPred]_vars

\* collect_prediction_metrics calls, the k-th with fraud probability k and
\* confidence k + 1, so that each value of a series names its insertion; the
\* buffer is flushed whenever it holds MaxDequeBuffer observations
NextDeque ==
    \/ /\ now < MaxDequeCalls
       /\ BufferSize(metric_buffer) < MaxDequeBuffer
       /\ collect_prediction_metrics(
              [fraud_probability |-> now + 1, confidence |-> now + 2],
              12, [policy_state |-> Num(1)])
    \/ /\ BufferSize(metric_buffer) >= MaxDequeBuffer
       /\ flush_metrics(0)

SpecDeque == Init /\ [][NextDeque]_vars

\* (fraud_probability, confidence) of a prediction, in tenths
DriftInputs == { <<2, 8>>, <<9, 8>>, <<2, 4>>, <<9, 4>> }

\* the steady prediction between the first call and the calls that fill
\* the window
SteadyInput == <<2, 8>>

\* predictions after which SpecDrift varies the inputs again: the window of
\* 100 fills with the next call
SteadyUntil == drift_window_size - 1

\* collect_prediction_metrics and collect_model_drift_metrics calls: the first
\* prediction and those from the 100th on are any of DriftInputs, the ones in
\* between are SteadyInput; the drift checks start two predictions before
\* the window fills; the buffer is flushed whenever it holds MaxDriftBuffer
\* observations
NextDrift ==
    \/ /\ Len(fraud_probabilities) < MaxDriftPreds
       /\ BufferSize(metric_buffer) < MaxDriftBuffer
       /\ \E in \in DriftInputs :
              /\ Len(fraud_probabilities) \in 1..(SteadyUntil - 1) => in = SteadyInput
              /\ collect_prediction_metrics(
                     [fraud_probability |-> in[1], confidence |-> in[2]],
                     12, [policy_state |-> Num(1)])
    \/ /\ now - Len(fraud_probabilities) < MaxDriftChecks
       /\ Len(fraud_probabilities) >= SteadyUntil - 1
       /\ BufferSize(metric_buffer) < MaxDriftBuffer
       /\ \E topic_arn \in TopicArns : collect_model_drift_metrics(topic_arn)
    \/ /\ BufferSize(metric_buffer) >= MaxDriftBuffer
       /\ flush_metrics(0)

SpecDrift == Init /\ [][NextDrift]_vars

\* _record_metric calls with any metric name of the model, then flushes: the
\* namespace of a put_metric_data call is _get_metric_namespace of the names
\* it carries
NextClassify ==
    \/ /\ now < MaxProbeCalls
       /\ \E name \in MetricNames : record_metric_call(name, 1, "None")
    \/ \E fail_at \in 0..MaxPutCalls : flush_metrics(fail_at)

SpecClassify == Init /\ [][NextClassify]_vars

\* fraud rates in hundredths, around the limits 0.05, 0.25 and 0.4
FraudRates == {Frac(n, 100) : n \in {0, 4, 5, 6, 15, 25, 26, 30, 40, 41, 50, 100}}

\* average confidences in hundredths, around the limit 0.6
AvgConfidences == {Frac(n, 100) : n \in {0, 59, 60, 61, 100}}

AvgFraudProbs == {Frac(10, 100), Frac(90, 100)}

\* _check_business_anomalies calls, then flushes
NextAnomaly ==
    \/ /\ now < MaxAnomalyCalls
       /\ \E fr \in FraudRates, fp \in AvgFraudProbs, conf \in AvgConfidences :
              check_business_anomalies_call(fr, fp, conf)
    \/ \E fail_at \in 0..MaxPutCalls : flush_metrics(fail_at)

SpecAnomaly == Init /\ [][NextAnomaly]_vars

\* status codes around the limits 400 and 500
ApiStatusCodes == {200, 399, 400, 404, 499, 500, 503}

\* collect_api_metrics calls with any of ApiStatusCodes, then flushes
NextApi ==
    \/ /\ now < MaxApiCalls
       /\ \E sc \in ApiStatusCodes :
              collect_api_metrics("/predict", "POST", sc, 2, 512, 64)
    \/ \E fail_at \in 0..MaxPutCalls : flush_metrics(fail_at)

SpecApi == Init /\ [][NextApi]_vars

\* source IPs of 7, 8, 9 and 12 characters; 10.0.0.1 and 10.0.0.12 agree on
\* their first 8 characters, and so do 192.168.10.7 and 192.168.99.1
SecurityIps ==
    { <<"1","9","2",".","1","6","8",".","1","0",".","7">>,
      <<"1","9","2",".","1","6","8",".","9","9",".","1">>,
      <<"1","0",".","0",".","0",".","1","2">>,
      <<"1","0",".","0",".","0",".","1">>,
      <<"1",".","2",".","3",".","4">> }

\* collect_security_metrics calls with any of SecurityIps, then flushes
NextSecurity ==
    \/ /\ now < MaxSecurityCalls
       /\ \E et \in EventTypes, ip \in SecurityIps, st \in Statuses :
              collect_security_metrics(et, ip, "curl", st)
    \/ \E fail_at \in 0..MaxPutCalls : flush_metrics(fail_at)

SpecSecurity == Init /\ [][NextSecurity]_vars

\* claims with none, one and all of the key features, with features that are
\* no key features, and with a value float() rejects at the first, a middle
\* and the last key feature present
FeatureClaimInputs ==
    { [policy_state |-> Num(1)],
      [policy_state |-> BadStr],
      [age |-> Num(30), policy_state |-> Num(1)],
      [months_as_customer |-> Num(12), age |-> Num(30),
       total_claim_amount |-> Num(5000), claim_ratio |-> NumStr(2),
       incident_severity |-> Num(3)],
      [months_as_customer |-> BadStr, age |-> Num(30)],
      [months_as_customer |-> Num(12), age |-> BadStr, claim_ratio |-> Num(2)],
      [total_claim_amount |-> Num(5000), incident_severity |-> BadStr] }

\* collect_prediction_metrics calls with any of FeatureClaimInputs, then
\* flushes
NextFeatures ==
    \/ /\ now < MaxFeatureCalls
       /\ \E pd \in PredictionInputs, cd \in FeatureClaimInputs :
              collect_prediction_metrics(pd, 12, cd)
    \/ \E fail_at \in 0..MaxPutCalls : flush_metrics(fail_at)

SpecFeatures == Init /\ [][NextFeatures]_vars

\* the fraud probability of the prediction made after n others: 0.1 and 0.9
\* in turn
AlternatingProb(n) == IF n % 2 = 0 THEN 1 ELSE 9

\* collect_prediction_metrics calls with fraud probabilities 0.1, 0.9, 0.1,
\* ... and collect_model_drift_metrics calls once the window is about to
\* fill; the buffer is flushed whenever it holds MaxDriftBuffer observations
NextAlternating ==
    \/ /\ Len(fraud_probabilities) < drift_window_size + MaxAlternatingExtra
       /\ BufferSize(metric_buffer) < MaxDriftBuffer
       /\ collect_prediction_metrics(
              [fraud_probability |-> AlternatingProb(Len(fraud_probabilities)),
               confidence |-> 8],
              12, [policy_state |-> Num(1)])
    \/ /\ now - Len(fraud_probabilities) < MaxAlternatingChecks
       /\ Len(fraud_probabilities) >= SteadyUntil - 1
       /\ BufferSize(metric_buffer) < MaxDriftBuffer
       /\ \E topic_arn \in TopicArns : collect_model_drift_metrics(topic_arn)
    \/ /\ BufferSize(metric_buffer) >= MaxDriftBuffer
       /\ flush_metrics(0)

SpecAlternating == Init /\ [][NextAlternating]_vars

\* sample values in tenths: 0.2 and 0.9, and -0.3 and 1.5 outside [0, 1]
SampleValues == {2, 9, -3, 15}

\* the samples of at most MaxSampleLen values, the empty one among them
Samples == UNION {[1..n -> SampleValues] : n \in 0..MaxSampleLen}

\* one _calculate_distribution_drift call of a new collector, on any two
\* samples
NextEstimator ==
    /\ outcome.op = "__init__"
    /\ \E current_data \in Samples, baseline_data \in Samples :
           calculate_distribution_drift_call(current_data, baseline_data)

SpecEstimator == Init /\ [][NextEstimator]_vars

\* one thread records API calls and failed authentications while another
\* runs flush_metrics step by step
NextConcurrent ==
    \/ /\ now < MaxRaceCalls
       /\ \E sc \in BatchStatusCodes :
              collect_api_metrics("/predict", "POST", sc, 2, 512, 64)
    \/ /\ now < MaxRaceCalls
       /\ \E ip \in SourceIps :
              collect_security_metrics("authentication", ip, "curl", "failed")
    \/ flush_begin
    \/ flush_group
    \/ \E accepted \in BOOLEAN : flush_put(accepted)
    \/ flush_clear

SpecConcurrent == Init /\ [][NextConcurrent]_vars

\* flush_metrics is invoked again and again and CloudWatch eventually accepts
\* every batch of one flush
FairSpec == Spec /\ WF_vars(flush_metrics(0))

----------------------------------------------------------------------------
\* Properties

\* the observations of the latest flush's put_metric_data calls, in call order
SinkItems == Flatten([i \in 1..Len(sink_log) |-> sink_log[i].MetricData])

SinkIds == {SinkItems[p].id : p \in 1..Len(SinkItems)}

AllAccepted == \A i \in 1..Len(sink_log) : sink_log[i].accepted

SomeRejected == \E i \in 1..Len(sink_log) : ~sink_log[i].accepted

SinkNamespaces == {sink_log[i].Namespace : i \in 1..Len(sink_log)}

\* the step is a flush_metrics call on a non-empty buffer
FlushStep == outcome'.op = "flush_metrics" /\ metric_buffer # <<>>

\* C1: every put_metric_data call of a flush carries at least 1 and at most 20
\* observations, and each of them classifies to the namespace of the call.
C1_BatchWithinLimitOneNamespace ==
    \A i \in 1..Len(sink_log) :
        LET batch == sink_log[i].MetricData IN
        /\ Len(batch) >= 1
        /\ Len(batch) <= 20
        /\ \A j \in 1..Len(batch) :
               get_metric_namespace(batch[j].MetricName) = sink_log[i].Namespace

\* a flush that sent a full batch, a partial one, and two namespaces
C1_Witness ==
    /\ outcome.op = "flush_metrics"
    /\ \E i \in 1..Len(sink_log) : Len(sink_log[i].MetricData) = 20
    /\ \E i \in 1..Len(sink_log) : Len(sink_log[i].MetricData) < 20
    /\ Cardinality(SinkNamespaces) >= 2

\* C2: in a flush whose put_metric_data calls all succeed, every observation
\* buffered when the flush started is sent in exactly one batch, and that
\* batch goes to the namespace its name classifies to; nothing else is sent.
C2_EachObservationEmittedOnce ==
    [][ (FlushStep /\ AllAccepted') =>
          /\ \A e \in 1..Len(metric_buffer) :
               \A p \in 1..Len(metric_buffer[e].list) :
                 LET m == metric_buffer[e].list[p]
                     at == {ij \in {<<i, j>> : i \in 1..Len(sink_log'), j \in 1..20} :
                              /\ ij[2] <= Len(sink_log'[ij[1]].MetricData)
                              /\ sink_log'[ij[1]].MetricData[ij[2]].id = m.id}
                 IN  /\ Cardinality(at) = 1
                     /\ \A ij \in at :
                          sink_log'[ij[1]].Namespace = get_metric_namespace(m.name)
          /\ SinkIds' = BufferIds(metric_buffer)
      ]_vars

\* a successful flush of several batches to two namespaces
C2_Witness ==
    /\ outcome.op = "flush_metrics"
    /\ metric_buffer = <<>>
    /\ Len(sink_log) >= 4
    /\ AllAccepted
    /\ Cardinality(SinkNamespaces) >= 2

\* C3: a flush of a non-empty buffer leaves the buffer empty exactly when
\* every put_metric_data call succeeded; when one failed the buffer is what it
\* was before the flush.
C3_ClearedIffAllSucceeded ==
    [][ FlushStep =>
          /\ (metric_buffer' = <<>>) <=> AllAccepted'
          /\ SomeRejected' => metric_buffer' = metric_buffer
      ]_vars

\* a flush that failed after CloudWatch accepted a batch, buffer kept
C3_Witness ==
    /\ outcome.op = "flush_metrics"
    /\ SomeRejected
    /\ \E i \in 1..Len(sink_log) : sink_log[i].accepted
    /\ metric_buffer # <<>>

\* C4 as stated: after any flush_metrics call the buffer is empty.
C4_Original == outcome.op = "flush_metrics" => metric_buffer = <<>>

\* C4 amended: after a flush_metrics call in which a put_metric_data call
\* failed, the buffer is not cleared: it still holds every observation of the
\* batches of that flush, the failed one and the ones sent before it; the
\* buffer is empty after a flush in which none failed.
C4_Amended ==
    outcome.op = "flush_metrics" =>
        /\ SomeRejected =>
              /\ metric_buffer # <<>>
              /\ SinkIds \subseteq BufferIds(metric_buffer)
        /\ AllAccepted => metric_buffer = <<>>

\* a flush whose first put_metric_data call failed
C4_Witness ==
    /\ outcome.op = "flush_metrics"
    /\ Len(sink_log) = 1
    /\ ~sink_log[1].accepted
    /\ BufferSize(metric_buffer) >= 2

\* C5: flush_metrics returns normally whichever put_metric_data call raises.
C5_FlushNeverRaises ==
    outcome.op = "flush_metrics" => outcome.result = "returned"

\* flush_metrics returned although its last of several calls raised
C5_Witness ==
    /\ outcome.op = "flush_metrics"
    /\ outcome.result = "returned"
    /\ Len(sink_log) >= 2
    /\ ~sink_log[Len(sink_log)].accepted

\* C6: no public operation of the collector raises to its caller.
C6_NoOperationRaises == outcome.result = "returned"

\* every observation recorded so far has been accepted by CloudWatch
AllRecordedDelivered == \A id \in 1..(next_id - 1) : id \in delivered

\* C7: under repeated flushing with CloudWatch eventually accepting a whole
\* flush, every recorded observation is eventually accepted by CloudWatch,
\* whatever flushes failed in between: from any point on, a point is reached
\* where all observations recorded until then have been accepted.
C7_RecordedEventuallyDelivered == []<>AllRecordedDelivered

\* a failed flush has left observations in the buffer that CloudWatch has not
\* accepted
C7_Witness ==
    /\ outcome.op = "flush_metrics"
    /\ SomeRejected
    /\ \E id \in BufferIds(metric_buffer) : id \notin delivered
    /\ \E id \in BufferIds(metric_buffer) : id \in delivered

\* all buffered observations classify to one namespace
OneNamespace(buf) ==
    \A e1, e2 \in 1..Len(buf) :
        get_metric_namespace(buf[e1].key) = get_metric_namespace(buf[e2].key)

\* the calls number ceil(n / 20) and all but the last carry 20 observations
BatchCountAndSizes(log, n) ==
    /\ 20 * (Len(log) - 1) < n
    /\ n <= 20 * Len(log)
    /\ \A i \in 1..(Len(log) - 1) : Len(log[i].MetricData) = 20

\* the id of the first observation of items named name
FirstId(items, name) ==
    LET ids == {items[r].id : r \in {r \in 1..Len(items) : items[r].MetricName = name}}
    IN  CHOOSE x \in ids : \A y \in ids : x <= y

\* C8 as stated: a flush of n observations of one namespace makes ceil(n/20)
\* calls, all but the last of 20 observations, whose concatenation lists the
\* observations in the order in which they were recorded.
C8_Original ==
    [][ (FlushStep /\ AllAccepted' /\ OneNamespace(metric_buffer)) =>
          /\ BatchCountAndSizes(sink_log', BufferSize(metric_buffer))
          /\ \A p \in 1..(Len(SinkItems') - 1) :
                 SinkItems'[p].id < SinkItems'[p + 1].id
      ]_vars

\* C8 amended: a flush of n observations of one namespace makes ceil(n/20)
\* calls, all but the last of 20 observations, whose concatenation lists the
\* observations grouped by metric name: the names in the order in which each
\* was first recorded, the observations of one name in recording order.
C8_Amended ==
    [][ (FlushStep /\ AllAccepted' /\ OneNamespace(metric_buffer)) =>
          /\ BatchCountAndSizes(sink_log', BufferSize(metric_buffer))
          /\ SinkIds' = BufferIds(metric_buffer)
          /\ \A p \in 1..(Len(SinkItems') - 1) :
                 LET a == SinkItems'[p]
                     b == SinkItems'[p + 1]
                 IN  IF a.MetricName = b.MetricName THEN a.id < b.id
                     ELSE /\ FirstId(SinkItems', a.MetricName) <
                                 FirstId(SinkItems', b.MetricName)
                          /\ FirstId(SinkItems', b.MetricName) = b.id
      ]_vars

\* a successful flush of more than 40 observations of one namespace in three
\* calls, the last one partial
C8_Witness ==
    /\ outcome.op = "flush_metrics"
    /\ metric_buffer = <<>>
    /\ AllAccepted
    /\ Len(sink_log) = 3
    /\ Cardinality(SinkNamespaces) = 1
    /\ Len(sink_log[3].MetricData) < 20

\* C9: the observations buffered under one metric name are in the order in
\* which they were recorded, and a flush sends the observations of one metric
\* name in that order.
C9_PerNameOrderKept ==
    /\ \A e \in 1..Len(metric_buffer) :
         LET l == metric_buffer[e].list IN
         /\ \A p \in 1..Len(l) : l[p].name = metric_buffer[e].key
         /\ \A p, q \in 1..Len(l) : p < q => l[p].id < l[q].id
    /\ \A p, q \in 1..Len(SinkItems) :
         (p < q /\ SinkItems[p].MetricName = SinkItems[q].MetricName)
             => SinkItems[p].id < SinkItems[q].id

\* a flush that sent observations of one metric name in two different calls
C9_Witness ==
    /\ outcome.op = "flush_metrics"
    /\ \E i, k \in 1..Len(sink_log) :
         /\ i < k
         /\ \E p \in 1..Len(sink_log[i].MetricData),
               q \in 1..Len(sink_log[k].MetricData) :
              sink_log[i].MetricData[p].MetricName =
                  sink_log[k].MetricData[q].MetricName

\* C10 as stated: a rolling series never holds more than W = 100 values.
C10_Original ==
    /\ Len(fraud_probabilities) <= 100
    /\ Len(confidences) <= 100

\* C10 amended: a rolling series never holds more than 1000 values, the
\* capacity of its deque; it holds the min(n, 1000) most recently inserted
\* values in insertion order after n collect_prediction_metrics calls, so
\* exactly 1000 after 1050 calls.  (Under SpecDeque the k-th call inserts k
\* and k + 1.)
C10_Amended ==
    /\ Len(fraud_probabilities) = Min(now, 1000)
    /\ Len(confidences) = Min(now, 1000)
    /\ \A i \in 1..Len(fraud_probabilities) :
           fraud_probabilities[i] = now - Len(fraud_probabilities) + i
    /\ \A i \in 1..Len(confidences) :
           confidences[i] = now - Len(confidences) + i + 1

\* 1050 calls made, 1000 values held
C10_Witness ==
    /\ now = 1050
    /\ Len(fraud_probabilities) = 1000
    /\ fraud_probabilities[1] = 51
    /\ Len(confidences) = 1000

----------------------------------------------------------------------------
\* Drift checks

\* the step is a collect_model_drift_metrics call
DriftStep == outcome'.op = "collect_model_drift_metrics"

\* the observation of the buffer that _record_metric call number id created
ObsOfId(buf, id) ==
    LET pick(items) == items[CHOOSE p \in 1..Len(items) : items[p].id = id]
    IN  CHOOSE r \in {pick(y) : y \in {DictItems(buf)}} : TRUE

\* C11: a collect_model_drift_metrics call made when fewer than 100
\* predictions have been recorded changes nothing in the buffer and publishes
\* nothing; a call made when at least 100 have been recorded adds exactly two
\* observations to the buffer, prediction_drift_score and then
\* confidence_drift_score, and leaves every other observation in place.
C11_DriftGuardedByWindow ==
    [][DriftStep =>
          IF Len(fraud_probabilities) < 100
          THEN /\ metric_buffer' = metric_buffer
               /\ next_id' = next_id
               /\ published' = published
          ELSE /\ next_id' = next_id + 2
               /\ BufferIds(metric_buffer') =
                      BufferIds(metric_buffer) \cup {next_id, next_id + 1}
               /\ ObsOfId(metric_buffer', next_id).name = "prediction_drift_score"
               /\ ObsOfId(metric_buffer', next_id + 1).name = "confidence_drift_score"
               /\ \A id \in BufferIds(metric_buffer) :
                      ObsOfId(metric_buffer', id) = ObsOfId(metric_buffer, id)
      ]_vars

\* the second drift check has run on a full window and its two observations
\* are the latest of the buffer
C11_Witness ==
    /\ outcome.op = "collect_model_drift_metrics"
    /\ Len(fraud_probabilities) >= 100
    /\ now - Len(fraud_probabilities) = 2
    /\ next_id - 1 \in BufferIds(metric_buffer)
    /\ ObsOfId(metric_buffer, next_id - 1).name = "confidence_drift_score"
    /\ ObsOfId(metric_buffer, next_id - 2).name = "prediction_drift_score"

\* the observations buffered under a metric name, in recording order
BufferList(buf, name) ==
    IF DictHas(buf, name)
    THEN buf[CHOOSE j \in 1..Len(buf) : buf[j].key = name].list
    ELSE <<>>

\* every drift score buffered under the name was computed against the same
\* baseline sample
SameBaseline(name) ==
    LET l == BufferList(metric_buffer, name)
    IN  \A i, j \in 1..Len(l) : l[i].value.kl_baseline = l[j].value.kl_baseline

\* C12: the drift checks of a signal all compare against the baseline sample
\* of the first check that passed the window precondition, whatever
\* predictions are recorded between the checks.
C12_BaselineHeldFixed ==
    /\ SameBaseline("prediction_drift_score")
    /\ SameBaseline("confidence_drift_score")

\* the 100 most recently recorded values of a series holding at least 100
Latest100(series) == SubSeq(series, Len(series) - 99, Len(series))

\* C13: with no baseline set, a drift check that passes the window
\* precondition computes each signal's score from the 100 most recently
\* recorded values of the signal as current sample and the first 50 of those
\* 100 values as baseline sample.
C13_BootstrapBaseline ==
    [][(DriftStep /\ Len(fraud_probabilities) >= 100 /\ baseline_metrics = <<>>) =>
          \E prob \in {ObsOfId(metric_buffer', next_id).value},
             conf \in {ObsOfId(metric_buffer', next_id + 1).value} :
              /\ prob.kl_current = Latest100(fraud_probabilities)
              /\ prob.kl_baseline = SubSeq(Latest100(fraud_probabilities), 1, 50)
              /\ conf.kl_current = Latest100(confidences)
              /\ conf.kl_baseline = SubSeq(Latest100(confidences), 1, 50)
              /\ prob = calculate_distribution_drift(prob.kl_current, prob.kl_baseline)
              /\ conf = calculate_distribution_drift(conf.kl_current, conf.kl_baseline)
      ]_vars

\* a drift check has run after 101 predictions of which the first, no longer
\* in the window, differed from the rest: the baseline is the 2nd to 51st
\* recorded value
C13_Witness ==
    /\ outcome.op = "collect_model_drift_metrics"
    /\ Len(fraud_probabilities) = 101
    /\ fraud_probabilities[1] # fraud_probabilities[2]
    /\ next_id - 1 \in BufferIds(metric_buffer)
    /\ ObsOfId(metric_buffer, next_id - 2).name = "prediction_drift_score"
    /\ ObsOfId(metric_buffer, next_id - 2).value.kl_baseline =
           SubSeq(fraud_probabilities, 2, 51)

\* the sns.publish calls of the step whose subject names the signal
NewAlerts(drift_type) ==
    {i \in (Len(published) + 1)..Len(published') :
         published'[i].Subject = <<"Model Drift Alert: ", drift_type>>}

\* the signal's part of C14 for the score the step recorded
AlertMatchesScore(drift, drift_type) ==
    /\ (~drift.nan /\ drift.kl_div > 150000 /\ outcome'.topic_arn # "")
           => Cardinality(NewAlerts(drift_type)) = 1
    /\ (~drift.nan /\ drift.kl_div <= 150000)
           => NewAlerts(drift_type) = {}

\* C14: in a drift check that passes the window precondition, each signal
\* whose recorded drift score is strictly greater than 0.15 gets exactly one
\* message published when an alert topic is configured, and each signal whose
\* score is 0.15 or less gets none.
C14_AlertPerExceedingSignal ==
    [][(DriftStep /\ Len(fraud_probabilities) >= 100) =>
          \E prob \in {ObsOfId(metric_buffer', next_id).value},
             conf \in {ObsOfId(metric_buffer', next_id + 1).value} :
              /\ AlertMatchesScore(prob, "Fraud Probability")
              /\ AlertMatchesScore(conf, "Model Confidence")
      ]_vars

----------------------------------------------------------------------------
\* Namespace classification

\* p is a prefix of the characters s
HasPrefix(s, p) ==
    /\ Len(p) <= Len(s)
    /\ \A i \in 1..Len(p) : s[i] = p[i]

\* p occurs somewhere in the characters s
HasSubstring(s, p) ==
    \E k \in 0..(Len(s) - Len(p)) : \A i \in 1..Len(p) : s[k + i] = p[i]

\* the rules of the classifier in priority order
NamespaceRules ==
    << [ns |-> "FraudDetection/API", prefixes |-> {<<"a","p","i","_">>},
        substrings |-> {}],
       [ns |-> "FraudDetection/ML",
        prefixes |-> {<<"p","r","e","d","i","c","t","i","o","n","_">>,
                      <<"f","r","a","u","d","_">>},
        substrings |-> {}],
       [ns |-> "FraudDetection/Business",
        prefixes |-> {<<"b","u","s","i","n","e","s","s","_">>,
                      <<"c","l","a","i","m","s","_">>},
        substrings |-> {}],
       [ns |-> "FraudDetection/Cost", prefixes |-> {},
        substrings |-> {<<"c","o","s","t">>}],
       [ns |-> "FraudDetection/Security",
        prefixes |-> {<<"s","e","c","u","r","i","t","y","_">>},
        substrings |-> {}] >>

RuleMatches(rule, s) ==
    \/ \E p \in rule.prefixes : HasPrefix(s, p)
    \/ \E p \in rule.substrings : HasSubstring(s, p)

\* the namespace of the earliest rule that matches, Custom if none does
FirstMatch(s) ==
    LET matching == {r \in 1..Len(NamespaceRules) : RuleMatches(NamespaceRules[r], s)}
    IN  IF matching = {} THEN "FraudDetection/Custom"
        ELSE NamespaceRules[CHOOSE r \in matching : \A q \in matching : r <= q].ns

\* the names a put_metric_data call carried under a namespace
SentUnder(name, namespace) ==
    \E i \in 1..Len(sink_log) :
        /\ sink_log[i].Namespace = namespace
        /\ \E p \in 1..Len(sink_log[i].MetricData) :
               sink_log[i].MetricData[p].MetricName = name

\* C15: every observation a flush sends goes under exactly the namespace of
\* the first rule, in the order api_ / prediction_ or fraud_ / business_ or
\* claims_ / 'cost' anywhere / security_, that its metric name matches, and
\* under Custom when no rule matches; the namespace is always one of the six.
\* So api_cost_tracker goes to API and cost_per_prediction to Cost.
C15_FirstMatchingRuleDecides ==
    \A i \in 1..Len(sink_log) :
        /\ sink_log[i].Namespace \in
               {"FraudDetection/API", "FraudDetection/ML", "FraudDetection/Business",
                "FraudDetection/Cost", "FraudDetection/Security",
                "FraudDetection/Custom"}
        /\ \A p \in 1..Len(sink_log[i].MetricData) :
               LET name == sink_log[i].MetricData[p].MetricName
               IN  /\ sink_log[i].Namespace = FirstMatch(NameChars[name])
                   /\ name = "api_cost_tracker" => sink_log[i].Namespace = "FraudDetection/API"
                   /\ name = "cost_per_prediction" => sink_log[i].Namespace = "FraudDetection/Cost"

\* a flush has sent api_cost_tracker under API and security_cost under Cost
C15_Witness ==
    /\ outcome.op = "flush_metrics"
    /\ SentUnder("api_cost_tracker", "FraudDetection/API")
    /\ SentUnder("security_cost", "FraudDetection/Cost")

----------------------------------------------------------------------------
\* Anomaly checks

\* the step is a _check_business_anomalies call
AnomalyStep == outcome'.op = "_check_business_anomalies"

\* the value of a dimension of an observation
DimOf(obs, key) ==
    obs.dimensions[CHOOSE d \in 1..Len(obs.dimensions) : obs.dimensions[d][1] = key][2]

\* the ids of the anomaly observations of a type that the buffer buf holds
\* from _record_metric call number first on
AnomaliesSince(buf, first, type) ==
    {id \in {i \in BufferIds(buf) : i >= first} :
         /\ ObsOfId(buf, id).name = "business_anomaly_detected"
         /\ DimOf(ObsOfId(buf, id), "AnomalyType") = <<type>>}

\* the rate is below / above n hundredths
RateBelow(rate, n) == rate.num * 100 < n * rate.den
RateAbove(rate, n) == rate.num * 100 > n * rate.den

\* C16: a check records a business_anomaly_detected observation of type
\* FraudRate exactly when fraud_rate < 0.05 or fraud_rate > 0.25 (none at 0.05
\* or 0.25), and only one; its Severity is HIGH exactly when fraud_rate > 0.4
\* and MEDIUM otherwise.
C16_FraudRateAnomaly ==
    [][AnomalyStep =>
          \E new \in {AnomaliesSince(metric_buffer', next_id, "FraudRate")} :
              LET fraud_rate == outcome'.fraud_rate
                  outside == RateBelow(fraud_rate, 5) \/ RateAbove(fraud_rate, 25)
              IN  /\ outside => Cardinality(new) = 1
                  /\ ~outside => new = {}
                  /\ \A id \in new :
                         DimOf(ObsOfId(metric_buffer', id), "Severity") =
                             IF RateAbove(fraud_rate, 40) THEN <<"HIGH">> ELSE <<"MEDIUM">>
      ]_vars

\* a check with fraud_rate 0.41 has recorded one anomaly, of type FraudRate
\* and Severity HIGH
C16_Witness ==
    /\ outcome.op = "_check_business_anomalies"
    /\ outcome.fraud_rate = Frac(41, 100)
    /\ outcome.avg_confidence = Frac(60, 100)
    /\ next_id - 1 \in BufferIds(metric_buffer)
    /\ DimOf(ObsOfId(metric_buffer, next_id - 1), "AnomalyType") = <<"FraudRate">>
    /\ DimOf(ObsOfId(metric_buffer, next_id - 1), "Severity") = <<"HIGH">>

\* C17: a check records an anomaly of type LowConfidence, Severity MEDIUM,
\* exactly when avg_confidence < 0.6 (none at 0.6 or above), whatever
\* fraud_rate and avg_fraud_prob are; the observations a check records are
\* one per violated rule and nothing else: 0, 1 or 2.
C17_LowConfidenceAnomaly ==
    [][AnomalyStep =>
          \E low \in {AnomaliesSince(metric_buffer', next_id, "LowConfidence")},
             rate \in {AnomaliesSince(metric_buffer', next_id, "FraudRate")} :
              LET fraud_rate == outcome'.fraud_rate
                  violated ==
                      (IF outcome'.avg_confidence.num * 100
                              < 60 * outcome'.avg_confidence.den THEN 1 ELSE 0)
                      + (IF RateBelow(fraud_rate, 5) \/ RateAbove(fraud_rate, 25)
                         THEN 1 ELSE 0)
              IN  /\ Cardinality(low) =
                         IF outcome'.avg_confidence.num * 100
                                < 60 * outcome'.avg_confidence.den THEN 1 ELSE 0
                  /\ \A id \in low :
                         DimOf(ObsOfId(metric_buffer', id), "Severity") = <<"MEDIUM">>
                  /\ next_id' = next_id + violated
                  /\ BufferIds(metric_buffer') =
                         BufferIds(metric_buffer) \cup low \cup rate
                  /\ Cardinality(low) + Cardinality(rate) = violated
      ]_vars

\* a check with fraud_rate 0.04 and avg_confidence 0.59 has recorded two
\* anomalies, FraudRate and then LowConfidence
C17_Witness ==
    /\ outcome.op = "_check_business_anomalies"
    /\ outcome.fraud_rate = Frac(4, 100)
    /\ outcome.avg_confidence = Frac(59, 100)
    /\ next_id - 2 \in BufferIds(metric_buffer)
    /\ DimOf(ObsOfId(metric_buffer, next_id - 2), "AnomalyType") = <<"FraudRate">>
    /\ DimOf(ObsOfId(metric_buffer, next_id - 1), "AnomalyType") = <<"LowConfidence">>
    /\ DimOf(ObsOfId(metric_buffer, next_id - 1), "Severity") = <<"MEDIUM">>

----------------------------------------------------------------------------
\* API calls

\* the step is a collect_api_metrics call
ApiStep == outcome'.op = "collect_api_metrics"

\* C18: a collect_api_metrics call appends api_request_duration,
\* api_request_size and api_response_size, in this order, and nothing else
\* when status_code < 400; when status_code >= 400 it appends api_errors_total
\* as a fourth observation, with ErrorType client if status_code < 500 and
\* server otherwise.
C18_ApiObservations ==
    [][ApiStep =>
          LET status_code == outcome'.status_code
              names == <<"api_request_duration", "api_request_size",
                         "api_response_size">>
                       \o IF status_code >= 400 THEN <<"api_errors_total">> ELSE <<>>
          IN  /\ Len(names) = IF status_code < 400 THEN 3 ELSE 4
              /\ next_id' = next_id + Len(names)
              /\ BufferIds(metric_buffer') =
                     BufferIds(metric_buffer) \cup (next_id..(next_id + Len(names) - 1))
              /\ \A k \in 1..Len(names) :
                     ObsOfId(metric_buffer', next_id + k - 1).name = names[k]
              /\ status_code >= 400 =>
                     DimOf(ObsOfId(metric_buffer', next_id + 3), "ErrorType") =
                         IF status_code < 500 THEN <<"client">> ELSE <<"server">>
      ]_vars

\* a call with status code 400 has recorded api_errors_total with ErrorType
\* client as its fourth observation
C18_Witness ==
    /\ outcome.op = "collect_api_metrics"
    /\ outcome.status_code = 400
    /\ next_id - 1 \in BufferIds(metric_buffer)
    /\ ObsOfId(metric_buffer, next_id - 1).name = "api_errors_total"
    /\ DimOf(ObsOfId(metric_buffer, next_id - 1), "ErrorType") = <<"client">>
    /\ ObsOfId(metric_buffer, next_id - 4).name = "api_request_duration"

----------------------------------------------------------------------------
\* Business aggregation

\* the step is a collect_business_metrics call
BusinessStep == outcome'.op = "collect_business_metrics"

\* the records of the table with a timestamp in [now - hours, now]
InWindow(table, hours) ==
    SelectSeq(table, LAMBDA r : r.timestamp >= 0 - hours /\ r.timestamp <= 0)

\* C19: a collect_business_metrics call leaves the buffer unchanged when the
\* prediction table holds no record in [now - time_period_hours, now]; when it
\* holds at least one, the call records claims_processed_total,
\* fraud_detection_rate, high_risk_claims_rate, average_fraud_probability and
\* average_model_confidence and then the anomalies of fraud count / total.
C19_RecordsIffStoreHasRecords ==
    [][BusinessStep =>
          LET recent == InWindow(outcome'.table, outcome'.time_period_hours)
              total == Len(recent)
              fraud == Cardinality({i \in 1..total : recent[i].is_fraud = 1})
              names == <<"claims_processed_total", "fraud_detection_rate",
                         "high_risk_claims_rate", "average_fraud_probability",
                         "average_model_confidence">>
          IN  IF total = 0
              THEN /\ metric_buffer' = metric_buffer
                   /\ next_id' = next_id
              ELSE /\ next_id' >= next_id + 5
                   /\ \A k \in 1..5 :
                          /\ next_id + k - 1 \in BufferIds(metric_buffer')
                          /\ ObsOfId(metric_buffer', next_id + k - 1).name = names[k]
                   /\ (AnomaliesSince(metric_buffer', next_id + 5, "FraudRate") # {})
                          <=> (fraud * 100 < 5 * total \/ fraud * 100 > 25 * total)
      ]_vars

----------------------------------------------------------------------------
\* Cost collection

\* the step is a collect_cost_metrics call
CostStep == outcome'.op = "collect_cost_metrics"

\* the hourly rate of an instance type in thousandths of a dollar, the rate
\* of ml.m5.large for a type the table does not list
HourlyRate(instance_type) ==
    IF instance_type = "ml.t2.medium" THEN 65
    ELSE IF instance_type = "ml.m5.xlarge" THEN 269
    ELSE IF instance_type = "ml.m5.2xlarge" THEN 538
    ELSE 134

\* C20: a collect_cost_metrics call for which describe_endpoint answers an
\* instance type and count records exactly four observations,
\* sagemaker_hourly_cost, cost_per_prediction, predictions_per_dollar and
\* active_instances, the first with value rate(instance type) x instance
\* count, an unlisted instance type taking the default rate.
C20_FourCostObservations ==
    [][(CostStep /\ ~outcome'.endpoint_info.error) =>
          LET info == outcome'.endpoint_info
              names == <<"sagemaker_hourly_cost", "cost_per_prediction",
                         "predictions_per_dollar", "active_instances">>
          IN  /\ next_id' = next_id + 4
              /\ BufferIds(metric_buffer') =
                     BufferIds(metric_buffer) \cup (next_id..(next_id + 3))
              /\ \A k \in 1..4 :
                     ObsOfId(metric_buffer', next_id + k - 1).name = names[k]
              /\ ObsOfId(metric_buffer', next_id).value =
                     Frac(HourlyRate(info.InstanceType) * info.CurrentInstanceCount, 1000)
      ]_vars

----------------------------------------------------------------------------
\* Security events

\* the step is a collect_security_metrics call
SecurityStep == outcome'.op = "collect_security_metrics"

\* the ids of the observations named name that the buffer buf holds from
\* _record_metric call number first on
NamedSince(buf, first, name) ==
    {id \in {i \in BufferIds(buf) : i >= first} : ObsOfId(buf, id).name = name}

\* the keys of the dimensions of an observation, in order
DimKeys(obs) == [d \in 1..Len(obs.dimensions) |-> obs.dimensions[d][1]]

\* text is the first 8 characters of ip (all of it when it has fewer)
\* followed by the mask, and nothing else
IsMasked(text, ip) ==
    LET n == IF Len(ip) < 8 THEN Len(ip) ELSE 8
    IN  /\ Len(text) = n + 1
        /\ \A i \in 1..n : text[i] = ip[i]
        /\ text[n + 1] = "xxx"

\* C21: every collect_security_metrics call records one security_events_total
\* observation with the dimensions EventType, Status and SourceRegion, the
\* first two being the call's event type and status; it records one
\* failed_authentication_attempts observation exactly when the event type is
\* authentication and the status is failed, and nothing else; the SourceIP
\* dimension of that observation is the first 8 characters of the source IP
\* followed by the mask xxx, without the rest of the IP.
C21_SecurityObservations ==
    [][SecurityStep =>
          \E events \in {NamedSince(metric_buffer', next_id, "security_events_total")},
             failures \in {NamedSince(metric_buffer', next_id,
                                      "failed_authentication_attempts")} :
              LET failed_auth == /\ outcome'.event_type = "authentication"
                                 /\ outcome'.status = "failed"
              IN  /\ events = {next_id}
                  /\ \E obs \in {ObsOfId(metric_buffer', next_id)} :
                         /\ obs.value = 1
                         /\ DimKeys(obs) = <<"EventType", "Status", "SourceRegion">>
                         /\ DimOf(obs, "EventType") = <<outcome'.event_type>>
                         /\ DimOf(obs, "Status") = <<outcome'.status>>
                  /\ failed_auth => failures = {next_id + 1}
                  /\ ~failed_auth => failures = {}
                  /\ next_id' = next_id + Cardinality(events) + Cardinality(failures)
                  /\ \A id \in failures :
                         \E obs \in {ObsOfId(metric_buffer', id)} :
                             /\ obs.value = 1
                             /\ DimKeys(obs) = <<"SourceIP">>
                             /\ IsMasked(DimOf(obs, "SourceIP"), outcome'.source_ip)
                  /\ BufferIds(metric_buffer') =
                         BufferIds(metric_buffer) \cup events \cup failures]_vars

\* a failed authentication from an IP longer than 8 characters was recorded
C21_Witness ==
    /\ outcome.op = "collect_security_metrics"
    /\ outcome.event_type = "authentication"
    /\ outcome.status = "failed"
    /\ Len(outcome.source_ip) > 8
    /\ \E id \in BufferIds(metric_buffer) :
           /\ ObsOfId(metric_buffer, id).name = "failed_authentication_attempts"
           /\ id = next_id - 1
           /\ Len(DimOf(ObsOfId(metric_buffer, id), "SourceIP")) = 9

----------------------------------------------------------------------------
\* Prediction calls

\* the step is a collect_prediction_metrics call
PredictionStep == outcome'.op = "collect_prediction_metrics"

\* the five key features, in the order in which they are read
KeyFeatureOrder ==
    <<"months_as_customer", "age", "total_claim_amount", "claim_ratio",
      "incident_severity">>

\* the positions in KeyFeatureOrder of the key features a claim has
PresentKeys(claim_data) ==
    {i \in 1..Len(KeyFeatureOrder) : KeyFeatureOrder[i] \in DOMAIN claim_data}

\* the positions of the key features of a claim that are no numbers
FailingKeys(claim_data) ==
    {i \in PresentKeys(claim_data) :
         claim_data[KeyFeatureOrder[i]].type = "other_str"}

\* the names of the observations that the buffer buf holds from _record_metric
\* call number first on, in the order of their recording
NamesSince(buf, first, last) == [i \in 1..(last - first) |-> ObsOfId(buf, first + i - 1).name]

\* the names of the three observations of the prediction itself
PredictionNames == <<"prediction_processing_time", "fraud_probability", "model_confidence">>

\* the names of feature observations for the key features at positions keys
FeatureNames(keys) ==
    {FeatureMetricName[KeyFeatureOrder[i]] : i \in keys}

\* series is the rolling series before with one value appended
OneAppended(before, series, value) ==
    IF Len(before) < DequeMaxLen
    THEN series = Append(before, value)
    ELSE series = Append(Tail(before), value)

\* C22: a collect_prediction_metrics call whose claim has a number for every
\* key feature present records exactly 3 + k observations, k being the number
\* of the five key features the claim has: the three prediction observations
\* and one feature observation for each key feature present, none for any
\* other feature; it appends exactly one value to each rolling series.
C22_ThreePlusKeyFeatures ==
    [][(PredictionStep /\ FailingKeys(outcome'.claim_data) = {}) =>
          \E keys \in {PresentKeys(outcome'.claim_data)} :
          \E names \in {NamesSince(metric_buffer', next_id, next_id')} :
              /\ outcome'.result = "returned"
              /\ next_id' = next_id + 3 + Cardinality(keys)
              /\ BufferIds(metric_buffer') =
                     BufferIds(metric_buffer) \cup (next_id..(next_id' - 1))
              /\ SubSeq(names, 1, 3) = PredictionNames
              /\ {names[i] : i \in 4..Len(names)} = FeatureNames(keys)
              /\ OneAppended(fraud_probabilities, fraud_probabilities',
                             PyGet(outcome'.prediction_data, "fraud_probability", 0))
              /\ OneAppended(confidences, confidences',
                             PyGet(outcome'.prediction_data, "confidence", 0))]_vars

\* a claim with all five key features was recorded, and one with a feature
\* that is no key feature and a single key feature
C22_Witness ==
    /\ outcome.op = "collect_prediction_metrics"
    /\ outcome.result = "returned"
    /\ Cardinality(PresentKeys(outcome.claim_data)) = 1
    /\ "policy_state" \in DOMAIN outcome.claim_data
    /\ Len(fraud_probabilities) = 2
    /\ BufferSize(metric_buffer) = 3 + 5 + 3 + 1

\* C23: the rolling series change only in collect_prediction_metrics calls:
\* collect_api_metrics, collect_business_metrics, collect_model_drift_metrics,
\* collect_cost_metrics, collect_security_metrics and flush_metrics, whether
\* it succeeds or fails, leave both series and the baseline as they were.
C23_OnlyPredictionsChangeSeries ==
    [][~PredictionStep =>
          /\ fraud_probabilities' = fraud_probabilities
          /\ confidences' = confidences
          /\ baseline_metrics' = baseline_metrics]_vars

\* a flush failed while the rolling series held a value
C23_Witness ==
    /\ outcome.op = "flush_metrics"
    /\ SomeRejected
    /\ Len(fraud_probabilities) = 1
    /\ Len(confidences) = 1

----------------------------------------------------------------------------
\* Flushing beside recording

\* the ids of the observations recorded so far
RecordedIds == 1..(next_id - 1)

\* C24: flush_metrics is atomic with respect to the recording calls: when a
\* flush that ran beside recording calls has ended, every observation
\* recorded so far has either been accepted by CloudWatch or is still in the
\* buffer.
C24_NoObservationLost ==
    (flush_thread.pc = "idle" /\ outcome.op = "flush_metrics") =>
        \A id \in RecordedIds : id \in delivered \/ id \in BufferIds(metric_buffer)

----------------------------------------------------------------------------
\* Drift of an alternating series

\* the series is 0.1, 0.9, 0.1, 0.9, ...
Alternating(series) ==
    \A i \in 1..Len(series) : series[i] = (IF i % 2 = 1 THEN 1 ELSE 9)

\* a drift score below one thousandth in absolute value
NearZero(drift) == ~drift.nan /\ drift.kl_div > -1000 /\ drift.kl_div < 1000

\* C25: after exactly 100 collect_prediction_metrics calls whose fraud
\* probabilities alternate between 0.1 and 0.9, a collect_model_drift_metrics
\* call passes the window precondition, records prediction_drift_score with a
\* value of (nearly) zero, which is not above the alert threshold, and
\* publishes no alert.
C25_AlternatingSeriesNoDrift ==
    [][(DriftStep /\ Len(fraud_probabilities) = 100
                  /\ Alternating(fraud_probabilities)) =>
          /\ next_id' = next_id + 2
          /\ next_id \in BufferIds(metric_buffer')
          /\ \E score \in {ObsOfId(metric_buffer', next_id)} :
                 /\ score.name = "prediction_drift_score"
                 /\ NearZero(score.value)
                 /\ score.value.kl_div <= DriftThreshold
          /\ published' = published]_vars

\* a drift check ran after exactly 100 alternating predictions and its
\* prediction_drift_score is in the buffer
C25_Witness ==
    /\ outcome.op = "collect_model_drift_metrics"
    /\ Len(fraud_probabilities) = 100
    /\ Alternating(fraud_probabilities)
    /\ (next_id - 2) \in BufferIds(metric_buffer)
    /\ ObsOfId(metric_buffer, next_id - 2).name = "prediction_drift_score"
    /\ ObsOfId(metric_buffer, next_id - 2).timestamp = now
    /\ ObsOfId(metric_buffer, next_id - 2).value.kl_div = 0

----------------------------------------------------------------------------
\* The estimator on degenerate samples

\* the sample is empty or has no value inside [0, 1]
Degenerate(sample) == \A i \in 1..Len(sample) : sample[i] < 0 \/ sample[i] > 10

\* C26: _calculate_distribution_drift returns exactly 0.0, and never a value
\* that is not a number, when the current or the baseline sample is empty or
\* has no value inside [0, 1].
C26_DegenerateGivesZero ==
    (/\ outcome.op = "_calculate_distribution_drift"
     /\ Degenerate(outcome.drift.kl_current) \/ Degenerate(outcome.drift.kl_baseline))
        => (~outcome.drift.nan /\ outcome.drift.kl_div = 0)

\* C27: the two rolling series always have the same length, which is the
\* number of collect_prediction_metrics calls made so far (every call reaches
\* the two appends, also one that raises afterwards), or the capacity of the
\* series if that is smaller.
C27_SeriesSameLength ==
    /\ Len(fraud_probabilities) = Len(confidences)
    /\ Len(fraud_probabilities) = (IF now < DequeMaxLen THEN now ELSE DequeMaxLen)

\* two calls were made, the second raised, and each series holds two values
C27_Witness ==
    /\ outcome.op = "collect_prediction_metrics"
    /\ outcome.result = "raised"
    /\ now = 2
    /\ Len(fraud_probabilities) = 2
    /\ Len(confidences) = 2

----------------------------------------------------------------------------
\* Delivery after a failed flush

\* the ids CloudWatch had accepted before the step and that the buffer still
\* held
AcceptedAndBuffered == delivered \cap BufferIds(metric_buffer)

\* C28: when the k-th put_metric_data call of a flush fails, k > 1, the
\* observations of the k-1 batches accepted before it stay in the buffer
\* together with the ones not sent; a later flush whose calls all succeed
\* sends them a second time: delivery is at least once, not exactly once.
C28_AcceptedBatchesSentAgain ==
    [][FlushStep =>
          /\ (SomeRejected' /\ Len(sink_log') > 1) =>
                 /\ BufferIds(metric_buffer') = BufferIds(metric_buffer)
                 /\ \A i \in 1..(Len(sink_log') - 1) :
                        /\ sink_log'[i].accepted
                        /\ Ids(sink_log'[i].MetricData) \subseteq delivered'
                        /\ Ids(sink_log'[i].MetricData) \subseteq
                               BufferIds(metric_buffer')
          /\ AllAccepted' =>
                 /\ AcceptedAndBuffered \subseteq SinkIds'
                 /\ metric_buffer' = <<>>]_vars

\* a flush failed at its second put_metric_data call or later, and the
\* observations of the batches accepted before are still in the buffer
C28_Witness ==
    /\ outcome.op = "flush_metrics"
    /\ SomeRejected
    /\ Len(sink_log) > 1
    /\ AcceptedAndBuffered # {}
    /\ Ids(sink_log[1].MetricData) \subseteq AcceptedAndBuffered

\* the smallest of a non-empty set of positions
First(positions) == CHOOSE i \in positions : \A j \in positions : i <= j

\* C29: a collect_prediction_metrics call is not atomic when it fails: if a
\* key feature of the claim is no number, the call raises, and the three
\* prediction observations, the append to each rolling series and the feature
\* observations of the key features read before the failing one remain; no
\* observation is recorded for the failing feature or for any later one.
C29_PartialEffectsOnFailure ==
    [][(PredictionStep /\ FailingKeys(outcome'.claim_data) # {}) =>
          \E failing \in {First(FailingKeys(outcome'.claim_data))} :
          \E before \in {{i \in PresentKeys(outcome'.claim_data) : i < failing}} :
          \E names \in {NamesSince(metric_buffer', next_id, next_id')} :
              /\ outcome'.result = "raised"
              /\ next_id' = next_id + 3 + Cardinality(before)
              /\ BufferIds(metric_buffer') =
                     BufferIds(metric_buffer) \cup (next_id..(next_id' - 1))
              /\ SubSeq(names, 1, 3) = PredictionNames
              /\ {names[i] : i \in 4..Len(names)} = FeatureNames(before)
              /\ OneAppended(fraud_probabilities, fraud_probabilities',
                             PyGet(outcome'.prediction_data, "fraud_probability", 0))
              /\ OneAppended(confidences, confidences',
                             PyGet(outcome'.prediction_data, "confidence", 0))]_vars

\* a call raised at its second key feature, age, with a later key feature in
\* the claim: feature_months_as_customer is in the buffer
C29_Witness ==
    /\ outcome.op = "collect_prediction_metrics"
    /\ outcome.result = "raised"
    /\ FailingKeys(outcome.claim_data) = {2}
    /\ PresentKeys(outcome.claim_data) = {1, 2, 4}
    /\ (next_id - 1) \in BufferIds(metric_buffer)
    /\ ObsOfId(metric_buffer, next_id - 1).name = "feature_months_as_customer"
    /\ ObsOfId(metric_buffer, next_id - 1).timestamp = now

----------------------------------------------------------------------------
\* What a security observation tells about the source IP

\* a and b agree on their first 8 characters
SamePrefix(a, b) ==
    \A i \in 1..8 : /\ i <= Len(a) <=> i <= Len(b)
                    /\ i <= Len(a) => a[i] = b[i]

\* the observations recorded from _record_metric call number first up to
\* call number last, without their ids and timestamps
RecordedSince(buf, first, last) ==
    [i \in 1..(last - first) |->
        LET obs == ObsOfId(buf, first + i - 1)
        IN  [name |-> obs.name, value |-> obs.value, unit |-> obs.unit,
             dimensions |-> obs.dimensions]]

\* what a call with the same event type and status but source IP other
\* records, without ids and timestamps
RecordedFor(event_type, other, status) ==
    LET recs == security_recs(event_type, other, status)
    IN  [i \in 1..Len(recs) |->
            [name |-> recs[i].name, value |-> recs[i].value,
             unit |-> recs[i].unit, dimensions |-> recs[i].dimensions]]

====
